---- MODULE Spec2Model ----
(***************************************************************************)
(* CoinConductor backend: ledger store (categories, transactions, bank     *)
(* accounts), the AI categorization adapter and its two orchestrators      *)
(* (bulk endpoint, background sweep) and the GoCardless bank sync.         *)
(* Every request handler is one action; the SQLAlchemy session a handler   *)
(* works through is modelled as committed rows plus pending changes.  The  *)
(* two categorization coroutines give the event loop back at every awaited *)
(* provider call: each is an action up to its first await and an action    *)
(* from one await to the next, with other requests served in between.      *)
(*                                                                         *)
(* SpecCategorize: categories, transactions, bulk run and background sweep *)
(* SpecSweep:      the background sweep over several owners                *)
(* SpecSync:       categories, bank accounts, bank sync, the clock         *)
(* SpecAdapter:    one call of AICategorizer.categorize_transaction        *)
(* SpecBudget:     budget periods, envelope allocations, the period read   *)
(* SpecBalance:    category reads with spent and remaining                 *)
(* SpecLedger:     manual transactions, bank sync and the webhook          *)
(* SpecCascade:    delete_category, delete_budget_period and delete_user   *)
(* SpecUsers:      registration, change and deletion of users              *)
(* SpecPeriods:    the dates of budget periods                             *)
(* SpecUpdate:     the five update handlers and delete_bank_account        *)
(* SpecIngest:     bank sync, manual entries and categorization runs       *)
(* SpecAwait:      requests served while a categorization run waits        *)
(* SpecProvider:   bank sync against the payments the provider holds;      *)
(*                 SpecProviderLive adds that syncs keep succeeding        *)
(* SpecWorkers:    bank sync served by two server processes                *)
(***************************************************************************)
EXTENDS Integers, Sequences, FiniteSets, TLC

\* ------------------------------------------------------------------ bounds
MaxCats == 2
MaxTxns == 2
MaxAccts == 2
MaxFetch == 2
MaxNow == 1
MaxRespLen == 3
MaxOwners == 3
MaxPeriods == 1
MaxAllocs == 2
MaxPeriodIds == 2
MaxAllocIds == 3
MaxRuns == 1

\* --------------------------------------------------------------- constants
HTTP_200 == 200
HTTP_204 == 204
HTTP_400 == 400
HTTP_404 == 404
HTTP_500 == 500

Users == {1, 2}
\* the largest id a row of users gets
MaxUsers == 2
\* UserCreate.username and UserCreate.email the requests carry
Usernames == {"ann", "bob"}
Emails == {"ann@example.org", "bob@example.org"}
\* the rows of table users the requests of Users authenticate as
RegisteredUsers ==
    {[id |-> 1, username |-> "ann", email |-> "ann@example.org"],
     [id |-> 2, username |-> "bob", email |-> "bob@example.org"]}
None == -1
NoExt == "null"
CategoryNames == {"Uncategorized", "Food"}
PaymentIds == {"PM1", "PM2"}
\* the payment records a fetch can return
Payments ==
    {[id |-> p, amount |-> 100, description |-> <<"Payment", p>>, date |-> 0] :
        p \in PaymentIds}
NoSecret == "null"
\* a text is the sequence of its words; a text column that is NULL
NoText == <<"null">>
\* provider tags as users write them, one character per element
GoCardless == <<"G", "o", "C", "a", "r", "d", "l", "e", "s", "s">>
GOCARDLESS == <<"G", "O", "C", "A", "R", "D", "L", "E", "S", "S">>
gocardless == <<"g", "o", "c", "a", "r", "d", "l", "e", "s", "s">>
Coinconductor ==
    <<"c", "o", "i", "n", "c", "o", "n", "d", "u", "c", "t", "o", "r">>
\* Category.month, format YYYY-MM
ThisMonth == "2025-03"
NextMonth == "2025-04"

VARIABLES
    categories,     \* rows of table categories
    transactions,   \* rows of table transactions
    bank_accounts,  \* rows of table bank_accounts
    now,            \* datetime.now()
    autoflush,      \* Session.autoflush of the session factory
    budget_periods,         \* rows of table budget_periods
    envelope_allocations,   \* rows of table envelope_allocations
    last,           \* the last response, or that a coroutine went to wait
    prev,           \* summary of the request before it
    workers,        \* the sync request each server process is working on
    sqlite_sequence,    \* table sqlite_sequence: the largest id ever given
    suspended,      \* the categorization run waiting for the provider
    users           \* ids of the rows of table users

vars == <<categories, transactions, bank_accounts, now, autoflush, budget_periods,
          envelope_allocations, last, prev, workers, sqlite_sequence, suspended,
          users>>

\* the server processes, each with its own event loop and sessions
Workers == {1, 2}
Idle == [stage |-> "idle"]
NoWorkers == [w \in Workers |-> Idle]

\* sqlite_sequence before any row was inserted into an AUTOINCREMENT table
NoSequence == [budget_periods |-> 0, envelope_allocations |-> 0]

\* no categorization run is waiting
NoRun == [kind |-> "none"]
NoRuns == [k \in 1..MaxRuns |-> NoRun]

\* what the identity map holds for an object that is expired
Expired == -2

\* ---------------------------------------------------------------- helpers
Max(S) == IF S = {} THEN 0 ELSE CHOOSE x \in S : \A y \in S : y <= x
Range(seq) == {seq[i] : i \in 1..Len(seq)}

\* INTEGER PRIMARY KEY of a new row: one more than the largest rowid in use
NextId(rows) == Max({r.id : r \in rows}) + 1

\* INTEGER PRIMARY KEY AUTOINCREMENT of a new row: one more than the largest
\* rowid the table ever held, which sqlite_sequence records
AutoIncrementId(rows, seq) == Max({r.id : r \in rows} \cup {seq}) + 1

\* rows of a table as a sequence in rowid order (the order .all() yields)
RECURSIVE OrderById(_)
OrderById(rows) ==
    IF rows = {} THEN <<>>
    ELSE LET m == CHOOSE r \in rows : \A q \in rows : r.id <= q.id
         IN  <<m>> \o OrderById(rows \ {m})

\* ---------------------------------------------------- update requests
\* an update schema whose fields are all Optional: a request is a record of
\* the fields its body names; a field sent as null holds None, as NullOf
\* writes it for the field
PartialRecords(full) ==
    UNION {{[f \in D |-> r[f]] : r \in full} :
              D \in SUBSET (DOMAIN (CHOOSE r \in full : TRUE))}

\* None in a field of a request and NULL in its column: of a text, of a
\* string, and of a number or a datetime
NullOf(field) ==
    IF field \in {"description", "notes"} THEN NoText
    ELSE IF field \in {"name", "month", "secret_id", "secret_key"} THEN "null"
    ELSE None

\* update.field is not None: the schema object holds None for a field the
\* body does not name and for a field it names with null
IsGiven(update, field) ==
    field \in DOMAIN update /\ update[field] # NullOf(field)

\* if update.field is not None: row.field = update.field
Provided(update, field, stored) ==
    IF IsGiven(update, field) THEN update[field] ELSE stored

\* onupdate=func.now() of column updated_at: the UPDATE the flush emits for
\* a row in which some column has another value than the stored one sets
\* updated_at as well; a row without such a column gets no UPDATE
OnUpdate(stored, row) ==
    IF row = stored THEN row ELSE [row EXCEPT !.updated_at = now]

\* the rows of a table after the flush of the rows a session holds: an
\* INSERT for a new row, an UPDATE for a changed one
Flushed(stored, rows) ==
    {IF \E q \in stored : q.id = r.id
     THEN OnUpdate(CHOOSE q \in stored : q.id = r.id, r)
     ELSE r : r \in rows}

\* ------------------------------------------------- the SQLAlchemy session
\* db: the committed rows of the tables the handlers write through a session;
\* pend: the same tables as the session holds them, with the changes and the
\* added rows not yet committed; loaded: the category_id held by each
\* transaction object of the identity map that is not expired
NewSession ==
    [db |-> [transactions |-> transactions, bank_accounts |-> bank_accounts],
     pend |-> [transactions |-> transactions, bank_accounts |-> bank_accounts],
     loaded |-> <<>>]

\* expire_on_commit: no object stays loaded after a commit or a rollback
Commit(sess) ==
    LET flushed ==
            [transactions |-> Flushed(sess.db.transactions, sess.pend.transactions),
             bank_accounts |-> Flushed(sess.db.bank_accounts, sess.pend.bank_accounts)]
    IN  [db |-> flushed, pend |-> flushed, loaded |-> <<>>]

Rollback(sess) == [db |-> sess.db, pend |-> sess.db, loaded |-> <<>>]

\* the transactions a SELECT sees: with autoflush the pending state is flushed
\* before the query runs; without it only rows already INSERTed are visible
Visible(sess, flush) ==
    IF flush THEN sess.pend.transactions
    ELSE {r \in sess.pend.transactions : \E q \in sess.db.transactions : q.id = r.id}

\* the request's session is closed when the handler returns or raises:
\* whatever was not committed is discarded
SessionClose(sess) == sess.db

\* ------------------------------------------- AICategorizer (the adapter)
Alphabet == {"0", "1", "2", "3", "n", "N", "x", " "}
Digits == {"0", "1", "2", "3"}

RECURSIVE SeqsUpTo(_, _)
SeqsUpTo(S, n) ==
    IF n = 0 THEN {<<>>}
    ELSE LET shorter == SeqsUpTo(S, n - 1)
         IN  shorter \cup {Append(s, c) : s \in shorter, c \in S}

\* what a provider call can yield: a text, or an exception
NoneToken == <<"N", "o", "n", "e">>
ResponseTexts == SeqsUpTo(Alphabet, MaxRespLen) \cup {NoneToken}
TextResponse(t) == [raised |-> FALSE, text |-> t]
ProviderError == [raised |-> TRUE, text |-> <<>>]
Responses == {TextResponse(t) : t \in ResponseTexts} \cup {ProviderError}

\* str.strip(): drop leading and trailing whitespace
RECURSIVE LStrip(_)
LStrip(s) == IF s # <<>> /\ Head(s) = " " THEN LStrip(Tail(s)) ELSE s
RECURSIVE RStrip(_)
RStrip(s) ==
    IF s # <<>> /\ s[Len(s)] = " " THEN RStrip(SubSeq(s, 1, Len(s) - 1)) ELSE s
Strip(s) == RStrip(LStrip(s))

\* str.lower(), for ASCII text
UpperCase ==
    <<"A", "B", "C", "D", "E", "F", "G", "H", "I", "J", "K", "L", "M",
      "N", "O", "P", "Q", "R", "S", "T", "U", "V", "W", "X", "Y", "Z">>
LowerCase ==
    <<"a", "b", "c", "d", "e", "f", "g", "h", "i", "j", "k", "l", "m",
      "n", "o", "p", "q", "r", "s", "t", "u", "v", "w", "x", "y", "z">>
ToLower ==
    [c \in {UpperCase[i] : i \in 1..Len(UpperCase)} |->
        LowerCase[CHOOSE i \in 1..Len(UpperCase) : UpperCase[i] = c]]
LowerChar(c) == IF c \in DOMAIN ToLower THEN ToLower[c] ELSE c
Lower(s) == [i \in 1..Len(s) |-> LowerChar(s[i])]

\* ''.join(c for c in response_text if c.isdigit() or c == 'n')
IsKept(c) == c \in Digits \/ c = "n"
\* as KeepDigitsAndN, keeping the digits only
KeepDigitsOnly(s) == SelectSeq(s, LAMBDA c : c \in Digits)

KeepDigitsAndN(s) == SelectSeq(s, IsKept)

DigitVal(c) == CASE c = "0" -> 0 [] c = "1" -> 1 [] c = "2" -> 2 [] c = "3" -> 3

\* int(response_text): a ValueError unless every character is a digit
IntParses(s) == s # <<>> /\ \A i \in 1..Len(s) : s[i] \in Digits
RECURSIVE IntOf(_)
IntOf(s) ==
    IF s = <<>> THEN 0
    ELSE 10 * IntOf(SubSeq(s, 1, Len(s) - 1)) + DigitVal(s[Len(s)])

\* as ExtractCategoryId, without the check against available_categories
ExtractCategoryId_Unchecked(text, available) ==
    LET response_text == KeepDigitsAndN(Lower(Strip(text)))
    IN  IF response_text = <<>> \/ Head(response_text) = "n" THEN None
        ELSE IF ~IntParses(response_text) THEN None
        ELSE IntOf(response_text)

\* the category id the response text is read as, or None
ExtractCategoryId(text, available) ==
    LET response_text == KeepDigitsAndN(Lower(Strip(text)))
    IN  IF response_text = <<>> \/ Head(response_text) = "n" THEN None
        ELSE IF ~IntParses(response_text) THEN None
        ELSE IF IntOf(response_text) \notin available THEN None
        ELSE IntOf(response_text)

\* transaction.category_id = category_id on the object the query returned:
\* an object already loaded keeps what it holds, an object that is not
\* loaded or is expired gets the values of its row from the query. An
\* attribute set to the value the object holds is not written; set to
\* another value it is written by an UPDATE, which sets updated_at
SetCategory(sess, transaction_id, category_id) ==
    LET is_loaded == /\ transaction_id \in DOMAIN sess.loaded
                     /\ sess.loaded[transaction_id] # Expired
        held == IF is_loaded THEN sess.loaded[transaction_id]
                ELSE (CHOOSE r \in sess.pend.transactions :
                          r.id = transaction_id).category_id
    IN
    IF (\E r \in sess.pend.transactions : r.id = transaction_id) /\ held = category_id
    THEN sess
    ELSE [sess EXCEPT !.pend.transactions =
            {IF r.id = transaction_id
             THEN [r EXCEPT !.category_id = category_id, !.updated_at = now]
             ELSE r : r \in sess.pend.transactions}]

\* self.db.refresh(transaction)
Refresh(sess, transaction_id) ==
    [sess EXCEPT !.loaded =
        transaction_id :> (CHOOSE r \in sess.db.transactions :
                               r.id = transaction_id).category_id]

\* as SaveCategory, but the row is only changed in the session, not committed
SaveCategory_NoCommit(sess, transaction_id, category_id, commit_ok) ==
    [raised |-> ~commit_ok, sess |-> SetCategory(sess, transaction_id, category_id)]

\* the update of the transaction row inside categorize_transaction
SaveCategory(sess, transaction_id, category_id, commit_ok) ==
    IF commit_ok
    THEN [raised |-> FALSE,
          sess |-> Refresh(Commit(SetCategory(sess, transaction_id, category_id)),
                       transaction_id)]
    ELSE [raised |-> TRUE, sess |-> Rollback(SetCategory(sess, transaction_id, category_id))]

\* AICategorizer.categorize_transaction; has_db: the categorizer was built
\* with a session; available: the ids of available_categories
CategorizeTransaction(has_db, sess, response, available, transaction_id, commit_ok) ==
    IF response.raised
    THEN [raised |-> TRUE, value |-> None, sess |-> sess]
    ELSE LET category_id == ExtractCategoryId(response.text, available)
         IN  IF category_id = None
             THEN [raised |-> FALSE, value |-> None, sess |-> sess]
             ELSE IF has_db /\ transaction_id # None
                     /\ \E r \in sess.pend.transactions : r.id = transaction_id
             THEN LET saved == SaveCategory(sess, transaction_id, category_id, commit_ok)
                  IN  [raised |-> saved.raised,
                       value |-> IF saved.raised THEN None ELSE category_id,
                       sess |-> saved.sess]
             ELSE [raised |-> FALSE, value |-> category_id, sess |-> sess]


\* --------------------------------------------------- selection and lookup
\* as IsUncategorized, without the filter on category_id
IsUncategorized_Any(t) == TRUE

\* (Transaction.category_id == None) | (Transaction.category_id == 0)
IsUncategorized(t) == t.category_id = None \/ t.category_id = 0

\* as CategoriesOf, without the filter on the owner
CategoriesOf_AnyOwner(user_id) == categories

\* db.query(Category).filter(Category.user_id == user_id).all()
CategoriesOf(user_id) == {c \in categories : c.user_id = user_id}

\* categories_for_ai, as the set of its ids
AvailableIds(user_id) == {c.id : c \in CategoriesOf(user_id)}

\* next((cat["name"] for cat in categories_for_ai if cat["id"] == category_id), None)
CategoryName(categories_for_ai, category_id) ==
    IF category_id # None /\ \E c \in categories_for_ai : c.id = category_id
    THEN (CHOOSE c \in categories_for_ai : c.id = category_id).name
    ELSE "None"

\* categories_for_ai = [{"id": category.id, "name": category.name} ...]
CategoriesForAi(user_id) ==
    {[id |-> c.id, name |-> c.name] : c \in CategoriesOf(user_id)}

\* the responses of the provider the orchestrators are driven with
MainResponses ==
    {TextResponse(<<"1">>), TextResponse(NoneToken), ProviderError}

\* uncategorized_transactions of bulk_categorize_transactions
Uncategorized(user_id) ==
    {t \in transactions : t.user_id = user_id /\ IsUncategorized(t)}

\* no request has been served yet
NoRequest == [op |-> "none", user |-> 0, status |-> 0]

\* summary of a request, kept for the request that follows it
Summary(req) ==
    IF req.op = "awaiting" THEN req.summary
    ELSE IF req.op = "bulk_categorize"
    THEN [op |-> req.op, user |-> req.user, status |-> req.status,
          unsuggested |-> {req.results[i].transaction_id : i \in
                             {j \in 1..Len(req.results) :
                                 req.results[j].category_id = None}},
          assigned |-> {req.results[i].transaction_id : i \in
                             {j \in 1..Len(req.results) :
                                 req.results[j].category_id # None}},
          alone |-> req.alone]
    ELSE [op |-> "other", user |-> 0, status |-> 0, unsuggested |-> {}, assigned |-> {},
          alone |-> TRUE]

\* a coroutine has gone to wait for the provider: no request has responded
\* in this step
Awaiting ==
    /\ last' = [op |-> "awaiting", user |-> 0, status |-> 0, summary |-> Summary(last)]
    /\ prev' = Summary(last)

\* the rows of table transactions a request changed or deleted, as they were
Changed(before, after) == {t \in before : t \notin after}

\* ------------------------------------------- runs waiting for the provider
\* A categorization coroutine gives the event loop back at every
\* `await categorizer.categorize_transaction(...)`: the requests served
\* meanwhile see and change the tables, and the coroutine goes on with the
\* objects and lists it read before. suspended[k] is such a coroutine:
\*   queue      the transactions still to do, the first one being awaited
\*   available  categories_for_ai as read
\*   cache      the objects of the session: the category_id each holds
\*   seen       table transactions as the coroutine left it at its await
\*   alone      no request has changed the table while the coroutine waited
FreeSlots == {k \in 1..MaxRuns : suspended[k] = NoRun}
FirstFree == CHOOSE k \in FreeSlots : \A j \in FreeSlots : k <= j

\* the session of a run as it stands at a resumption: the tables as they
\* are now, the objects as they were loaded
RunSession(run) ==
    [NewSession EXCEPT !.loaded =
        [id \in {i \in DOMAIN run.cache : run.cache[i] # Expired} |-> run.cache[id]]]

\* the objects of the run after a call that used the session
CacheOf(run, sess) ==
    [id \in DOMAIN run.cache |->
        IF id \in DOMAIN sess.loaded THEN sess.loaded[id] ELSE Expired]

\* reading an attribute of the object of transaction id: an expired object
\* is loaded from its row, and ObjectDeletedError is raised when the row is
\* gone
Load(rows, cache, id) ==
    IF cache[id] # Expired THEN [raised |-> FALSE, cache |-> cache]
    ELSE IF \E t \in rows : t.id = id
    THEN [raised |-> FALSE,
          cache |-> [cache EXCEPT ![id] = (CHOOSE t \in rows : t.id = id).category_id]]
    ELSE [raised |-> TRUE, cache |-> cache]

\* ------------------------------ bulk_categorize_transactions (routes/ai.py)
\* the bulk run the call comes right after, when it is one of the same user
\* and the table is as that run left it
Follows(user_id) ==
    IF last.op = "bulk_categorize" /\ last.user = user_id /\ last.after = transactions
    THEN Summary(last)
    ELSE Summary(NoRequest)

\* the response of the request, and the end of its coroutine
BulkRespond(run, status, results, attempted, raised, rows) ==
    /\ last' = [op |-> "bulk_categorize", user |-> run.user, status |-> status,
                results |-> IF status = HTTP_200 THEN results ELSE <<>>,
                selected |-> run.selected, attempted |-> attempted, raised |-> raised,
                changed |-> run.changed \cup Changed(transactions, rows),
                progress |-> results,
                follows |-> run.follows,
                alone |-> run.alone /\ transactions = run.seen,
                after |-> rows]
    /\ prev' = Summary(last)

\* POST /ai/bulk-categorize/, from the call to the first await or to the
\* response; ctor_ok: AICategorizer(...) can be built
bulk_categorize_transactions(user_id, ctor_ok) ==
    LET uncategorized_transactions == OrderById(Uncategorized(user_id))
        selected == [i \in 1..Len(uncategorized_transactions)
                       |-> uncategorized_transactions[i].id]
        run == [kind |-> "bulk", user |-> user_id, selected |-> selected,
                queue |-> selected,
                available |-> CategoriesForAi(user_id),
                cache |-> [id \in Range(selected) |->
                             (CHOOSE t \in transactions : t.id = id).category_id],
                results |-> <<>>, changed |-> {},
                seen |-> transactions, alone |-> TRUE, follows |-> Follows(user_id)]
        Respond(status) ==
            /\ BulkRespond(run, status, <<>>, 0, None, transactions)
            /\ UNCHANGED suspended
    IN  /\ IF uncategorized_transactions = <<>> THEN Respond(HTTP_200)
           ELSE IF CategoriesOf(user_id) = {} THEN Respond(HTTP_400)
           ELSE IF ~ctor_ok THEN Respond(HTTP_500)
           ELSE /\ FreeSlots # {}
                /\ suspended' = [suspended EXCEPT ![FirstFree] = run]
                /\ Awaiting
        /\ UNCHANGED <<users, workers, sqlite_sequence, categories, transactions, bank_accounts,
                       now, autoflush, budget_periods, envelope_allocations>>

\* the coroutine of run k goes on when the provider has answered for the
\* transaction it waits on, up to the next await or to the response;
\* commit_ok: the commit inside categorize_transaction succeeds;
\* final_commit_ok: the commit after the loop succeeds
bulk_categorize_transactions_resume(k, response, commit_ok, final_commit_ok) ==
    LET run == suspended[k]
        transaction_id == Head(run.queue)
        out == CategorizeTransaction(TRUE, RunSession(run), response,
                   {c.id : c \in run.available}, transaction_id, commit_ok)
        rows == SessionClose(out.sess).transactions
        cache == CacheOf(run, out.sess)
        results == Append(run.results,
                       [transaction_id |-> transaction_id, category_id |-> out.value,
                        category_name |-> CategoryName(run.available, out.value)])
        rest == Tail(run.queue)
        next == Load(rows, cache, Head(rest))
        refreshed == \A id \in Range(run.selected) : \E t \in rows : t.id = id
        Respond(status, reported, attempted, raised) ==
            /\ BulkRespond(run, status, reported, attempted, raised, rows)
            /\ suspended' = [suspended EXCEPT ![k] = NoRun]
    IN  /\ run.kind = "bulk"
        /\ transactions' = rows
        /\ IF out.raised
           THEN Respond(HTTP_500, run.results, Len(run.results) + 1, transaction_id)
           ELSE IF rest # <<>>
           THEN IF next.raised
                THEN Respond(HTTP_500, results, Len(results) + 1, Head(rest))
                ELSE /\ suspended' = [suspended EXCEPT ![k] =
                            [run EXCEPT !.queue = rest, !.cache = next.cache,
                                        !.results = results,
                                        !.changed = @ \cup Changed(transactions, rows),
                                        !.alone = @ /\ transactions = run.seen,
                                        !.seen = rows]]
                     /\ Awaiting
           ELSE IF ~final_commit_ok \/ ~refreshed
           THEN Respond(HTTP_500, results, Len(results), None)
           ELSE Respond(HTTP_200, results, Len(results), None)
        /\ UNCHANGED <<users, workers, sqlite_sequence, categories, bank_accounts, now,
                       autoflush, budget_periods, envelope_allocations>>

\* ------------- categorize_uncategorized_transactions (utils/scheduler.py)
\* transactions_by_user: the owners in the order of their first transaction
RECURSIVE OwnersInOrder(_, _)
OwnersInOrder(txs, seen) ==
    IF txs = <<>> THEN <<>>
    ELSE IF Head(txs).user_id \in seen THEN OwnersInOrder(Tail(txs), seen)
    ELSE <<Head(txs).user_id>> \o OwnersInOrder(Tail(txs), seen \cup {Head(txs).user_id})

\* the transactions in the order the two nested loops reach them
RECURSIVE ByOwner(_, _)
ByOwner(txs, owners) ==
    IF owners = <<>> THEN <<>>
    ELSE SelectSeq(txs, LAMBDA t : t.user_id = Head(owners)) \o ByOwner(txs, Tail(owners))

\* where the coroutine stands after a stretch without await: at the next
\* await (done = FALSE) or at its end (done = TRUE); outer: what the outer
\* except clause caught, "ctor" from AICategorizer() or "load" from reading
\* a transaction whose row is gone, or "none"
AtAwait(run) == [done |-> FALSE, outer |-> "none", run |-> run]
AtEnd(run) == [done |-> TRUE, outer |-> "none", run |-> run]
Aborted(run, exception) == [done |-> TRUE, outer |-> exception, run |-> run]

\* the head of the loop body for the transaction at the head of the queue:
\* transaction.description and transaction.amount are read for the call.
\* When the object is expired and its row is gone the read raises, the
\* handler of the inner except reads transaction.id, which raises again,
\* and the outer except clause rolls back and ends the sweep
SweepStart(run, rows) ==
    LET id == Head(run.queue).id
        object == Load(rows, run.cache, id)
    IN  IF object.raised
        THEN Aborted([run EXCEPT !.attempted = Append(@, id),
                                 !.raised = @ \cup {id}, !.pending = {}], "load")
        ELSE AtAwait([run EXCEPT !.cache = object.cache])

\* the head of the loop over the owners: the owner's categories are read,
\* an owner without category is skipped, the categorizer is built
RECURSIVE SweepEnter(_, _, _)
SweepEnter(run, rows, ctor_ok) ==
    IF run.queue = <<>> THEN AtEnd(run)
    ELSE LET user_id == Head(run.queue).user_id
         IN  IF CategoriesOf(user_id) = {}
             THEN SweepEnter([run EXCEPT
                                 !.queue = SelectSeq(@, LAMBDA t : t.user_id # user_id),
                                 !.skipped = @ \cup {user_id}],
                      rows, ctor_ok)
             ELSE IF ~ctor_ok THEN Aborted(run, "ctor")
             ELSE SweepStart([run EXCEPT !.user = user_id,
                                         !.available = CategoriesForAi(user_id)],
                      rows)

\* db.commit() after one owner's loop, and db.rollback() when it raises: the
\* flush sends UPDATE transactions SET category_id = ?, updated_at = ? for every
\* object given another category than it held, and raises StaleDataError
\* when one of them matches no row
SweepCommit(run, commit_ok) ==
    LET stale == \E p \in run.pending : ~\E t \in transactions : t.id = p.id
        failed == ~commit_ok \/ stale
        rows == IF failed THEN transactions
                ELSE {IF \E p \in run.pending : p.id = t.id
                      THEN [t EXCEPT !.category_id =
                               (CHOOSE p \in run.pending : p.id = t.id).category_id,
                                     !.updated_at = now]
                      ELSE t : t \in transactions}
    IN  [failed |-> failed, rows |-> rows,
         run |-> [run EXCEPT !.pending = {},
                             !.cache = [id \in DOMAIN @ |-> Expired],
                             !.commit_fail = IF failed THEN @ \cup {run.user} ELSE @,
                             !.changed = @ \cup Changed(transactions, rows)]]

\* as AfterCommit, with the commit outside the per-owner try/except: a commit
\* that raises ends the sweep
AfterCommit_EndAtFailure(committed, ctor_ok) ==
    IF committed.failed THEN AtEnd(committed.run)
    ELSE SweepEnter(committed.run, committed.rows, ctor_ok)

\* after the per-owner try/except around db.commit(): the next owner
AfterCommit(committed, ctor_ok) ==
    SweepEnter(committed.run, committed.rows, ctor_ok)

\* the loop goes on after the body of one transaction: to the next
\* transaction of the owner, or to the owner's commit and the next owner
SweepGoOn(run, commit_ok, ctor_ok) ==
    IF run.queue # <<>> /\ Head(run.queue).user_id = run.user
    THEN [step |-> SweepStart(run, transactions), rows |-> transactions]
    ELSE LET committed == SweepCommit(run, commit_ok)
         IN  [step |-> AfterCommit(committed, ctor_ok), rows |-> committed.rows]

\* after the try/except around one transaction; raised: the except clause
\* was taken, which logs and lets the loop go on
AfterBody(run, raised, commit_ok, ctor_ok) == SweepGoOn(run, commit_ok, ctor_ok)

\* the end of the job, or its next await
SweepSettle(k, out) ==
    LET run == out.step.run
    IN  /\ transactions' = out.rows
        /\ IF out.step.done
           THEN /\ last' = [op |-> "sweep", user |-> 0,
                            status |-> IF out.step.outer # "none"
                                       THEN HTTP_500 ELSE HTTP_200,
                            outer |-> out.step.outer,
                            selected |-> run.selected,
                            selection |-> run.selection,
                            skipped |-> run.skipped,
                            attempted |-> run.attempted, raised |-> run.raised,
                            suggested |-> run.suggested,
                            commit_fail |-> run.commit_fail,
                            changed |-> run.changed,
                            alone |-> run.alone]
                /\ prev' = Summary(last)
                /\ suspended' = [suspended EXCEPT ![k] = NoRun]
           ELSE /\ suspended' = [suspended EXCEPT ![k] = [run EXCEPT !.seen = out.rows]]
                /\ Awaiting

\* the background task of the scheduler, from its start to the first await
\* or to its end; ctor_ok: AICategorizer() can be built
categorize_uncategorized_transactions(ctor_ok) ==
    LET uncategorized == OrderById({t \in transactions : IsUncategorized(t)})
        selection == [i \in 1..Len(uncategorized) |->
                        [id |-> uncategorized[i].id,
                         user_id |-> uncategorized[i].user_id]]
        run == [kind |-> "sweep", user |-> 0, selection |-> selection,
                selected |-> [i \in 1..Len(selection) |-> selection[i].id],
                queue |-> ByOwner(selection, OwnersInOrder(selection, {})),
                available |-> {},
                cache |-> [id \in {t.id : t \in Range(uncategorized)} |->
                             (CHOOSE t \in transactions : t.id = id).category_id],
                pending |-> {}, attempted |-> <<>>, raised |-> {}, suggested |-> {},
                commit_fail |-> {}, skipped |-> {}, changed |-> {},
                seen |-> transactions, alone |-> TRUE]
        step == SweepEnter(run, transactions, ctor_ok)
    IN  /\ FreeSlots # {}
        /\ SweepSettle(FirstFree, [step |-> step, rows |-> transactions])
        /\ UNCHANGED <<users, workers, sqlite_sequence, categories, bank_accounts, now,
                       autoflush, budget_periods, envelope_allocations>>

\* the coroutine of run k goes on when the provider has answered for the
\* transaction it waits on, up to the next await or to its end; commit_ok:
\* the owner's commit succeeds; ctor_ok: AICategorizer() can be built for
\* the next owner
categorize_uncategorized_transactions_resume(k, response, commit_ok, ctor_ok) ==
    LET run == suspended[k]
        id == Head(run.queue).id
        out == CategorizeTransaction(FALSE, RunSession(run), response,
                   {c.id : c \in run.available}, None, TRUE)
        assigned == ~out.raised /\ out.value # None
        after == [run EXCEPT
                     !.queue = Tail(@),
                     !.attempted = Append(@, id),
                     !.raised = IF out.raised THEN @ \cup {id} ELSE @,
                     !.suggested = IF assigned THEN @ \cup {id} ELSE @,
                     !.pending = IF assigned /\ run.cache[id] # out.value
                                 THEN @ \cup {[id |-> id, category_id |-> out.value]}
                                 ELSE @,
                     !.cache = IF assigned THEN [@ EXCEPT ![id] = out.value] ELSE @,
                     !.alone = @ /\ transactions = run.seen]
    IN  /\ run.kind = "sweep"
        /\ SweepSettle(k, AfterBody(after, out.raised, commit_ok, ctor_ok))
        /\ UNCHANGED <<users, workers, sqlite_sequence, categories, bank_accounts, now,
                       autoflush, budget_periods, envelope_allocations>>

\* --------------------------------------------------------- CRUD handlers
\* POST /categories/
create_category(user_id, name, budget_amount, month) ==
    /\ Cardinality(categories) < MaxCats
    /\ categories' = categories \cup
           {[id |-> NextId(categories), name |-> name, user_id |-> user_id,
             budget_amount |-> budget_amount, month |-> month,
             updated_at |-> None]}
    /\ last' = [op |-> "create_category", user |-> user_id, status |-> HTTP_200]
    /\ prev' = Summary(last)
    /\ UNCHANGED <<users, workers, sqlite_sequence, suspended, transactions, bank_accounts, now, autoflush, budget_periods,
                 envelope_allocations>>

\* POST /transactions/
create_transaction(user_id, category_id, external_id, amount, source, notes, description, date) ==
    /\ Cardinality(transactions) < MaxTxns
    /\ IF category_id # None /\ category_id \notin AvailableIds(user_id)
       THEN /\ last' = [op |-> "create_transaction", user |-> user_id,
                        status |-> HTTP_404]
            /\ UNCHANGED transactions
       ELSE /\ transactions' = transactions \cup
                   {[id |-> NextId(transactions), user_id |-> user_id,
                     category_id |-> category_id, external_id |-> external_id,
                     source |-> source, amount |-> amount, notes |-> notes,
                     description |-> description, date |-> date,
                     updated_at |-> None]}
            /\ last' = [op |-> "create_transaction", user |-> user_id,
                        status |-> HTTP_200]
    /\ prev' = Summary(last)
    /\ UNCHANGED <<users, workers, sqlite_sequence, suspended, categories, bank_accounts, now, autoflush, budget_periods,
                     envelope_allocations>>

\* ------------------------------------------------ categorization: the system

\* the ids of the rows of table users: get_current_active_user resolves a
\* token to one of these rows
UserIds == {u.id : u \in users}

\* as CategoryTransactions, with no transaction loaded
CategoryTransactions_None(category) == {}

\* Category.transactions: relationship("Transaction", back_populates="category",
\* cascade="all, delete-orphan"), the rows whose category_id is the category's id
CategoryTransactions(category) ==
    {t \in transactions : t.category_id = category.id}

\* Category.allocations: relationship("EnvelopeAllocation", ...,
\* cascade="all, delete-orphan")
CategoryAllocations(category) ==
    {a \in envelope_allocations : a.category_id = category.id}

\* DELETE /categories/{category_id}/; db.delete cascades to the
\* category's transactions and allocations
delete_category(user_id, category_id) ==
    LET found == {c \in categories : c.id = category_id /\ c.user_id = user_id}
        db_category == CHOOSE c \in found : TRUE
    IN  /\ prev' = Summary(last)
        /\ last' = [op |-> "delete_category", user |-> user_id,
                    status |-> IF found = {} THEN HTTP_404 ELSE HTTP_204,
                    category |-> category_id,
                    removed |-> IF found = {} THEN {}
                                ELSE {t.id : t \in CategoryTransactions(db_category)}]
        /\ IF found = {}
           THEN UNCHANGED <<users, workers, sqlite_sequence, suspended, categories, transactions, envelope_allocations>>
           ELSE /\ categories' = categories \ found
                /\ transactions' = transactions \ CategoryTransactions(db_category)
                /\ envelope_allocations' =
                       envelope_allocations \ CategoryAllocations(db_category)
        /\ UNCHANGED <<users, workers, sqlite_sequence, suspended, bank_accounts, now, autoflush, budget_periods>>

\* DELETE /transactions/{transaction_id}/
delete_transaction(user_id, transaction_id) ==
    LET found == {t \in transactions : t.id = transaction_id /\ t.user_id = user_id}
    IN  /\ last' = [op |-> "delete_transaction", user |-> user_id,
                    status |-> IF found = {} THEN HTTP_404 ELSE HTTP_204]
        /\ transactions' = transactions \ found
        /\ prev' = Summary(last)
        /\ UNCHANGED <<users, workers, sqlite_sequence, suspended, categories, bank_accounts, now, autoflush, budget_periods,
                       envelope_allocations>>

InitCategorize ==
    /\ categories = {}
    /\ transactions = {}
    /\ bank_accounts = {}
    /\ budget_periods = {}
    /\ envelope_allocations = {}
    /\ now = 0
    /\ autoflush = FALSE
    /\ last = NoRequest
    /\ prev = Summary(NoRequest)
    /\ workers = NoWorkers
    /\ users = RegisteredUsers
    /\ sqlite_sequence = NoSequence
    /\ suspended = NoRuns

CreateCategory ==
    \E user_id \in Users : create_category(user_id, "Food", 0, ThisMonth)

CreateTransaction ==
    \E user_id \in Users, category_id \in {None} \cup 1..MaxCats :
        create_transaction(user_id, category_id, NoExt, 0, "manual", <<>>,
            <<"Coffee">>, 0)

BulkCategorize ==
    \E user_id \in Users, ctor_ok \in BOOLEAN :
        bulk_categorize_transactions(user_id, ctor_ok)

BulkResume ==
    \E k \in 1..MaxRuns, response \in MainResponses, commit_ok \in BOOLEAN,
       final_commit_ok \in BOOLEAN :
        bulk_categorize_transactions_resume(k, response, commit_ok, final_commit_ok)

Sweep ==
    \E ctor_ok \in BOOLEAN : categorize_uncategorized_transactions(ctor_ok)

SweepResume ==
    \E k \in 1..MaxRuns, response \in MainResponses, commit_ok \in BOOLEAN,
       ctor_ok \in BOOLEAN :
        categorize_uncategorized_transactions_resume(k, response, commit_ok, ctor_ok)

DeleteTransaction ==
    \E user_id \in Users, transaction_id \in 1..MaxTxns :
        delete_transaction(user_id, transaction_id)

DeleteCategory ==
    \E user_id \in UserIds, category_id \in 1..MaxCats :
        delete_category(user_id, category_id)

\* creation of categories and transactions, and the runs. The requests that
\* delete a row while a run waits are served in SpecSweep and SpecAwait
NextCategorize ==
    \/ CreateCategory
    \/ CreateTransaction
    \/ BulkCategorize
    \/ BulkResume
    \/ Sweep
    \/ SweepResume

SpecCategorize == InitCategorize /\ [][NextCategorize]_vars

\* ------------------------------------------- the sweep over several owners
\* one run of the scheduled job over MaxOwners uncategorized transactions,
\* each of any owner; an owner either has one category (its id the owner's)
\* or none
SweepUsers == 1..MaxOwners

\* the provider names one category id, or fails
SweepResponses ==
    {TextResponse(<<d>>) : d \in {"1", "2", "3"}} \cup {ProviderError}

InitSweep ==
    /\ \E with_category \in SUBSET SweepUsers :
          categories = {[id |-> u, name |-> "Food", user_id |-> u,
                         budget_amount |-> 0, month |-> ThisMonth,
                         updated_at |-> None] :
                            u \in with_category}
    /\ \E owner \in [1..MaxOwners -> SweepUsers] :
          transactions = {[id |-> i, user_id |-> owner[i], category_id |-> None,
                           external_id |-> NoExt, source |-> "manual",
                           amount |-> 0, notes |-> <<>>,
                           description |-> <<"Coffee">>, date |-> 0, updated_at |-> None] : i \in 1..MaxOwners}
    /\ bank_accounts = {}
    /\ budget_periods = {}
    /\ envelope_allocations = {}
    /\ now = 0
    /\ autoflush = FALSE
    /\ last = NoRequest
    /\ prev = Summary(NoRequest)
    /\ workers = NoWorkers
    /\ users = RegisteredUsers
    /\ sqlite_sequence = NoSequence
    /\ suspended = NoRuns

\* the scheduler starts the job
RunSweep ==
    \E ctor_ok \in BOOLEAN : categorize_uncategorized_transactions(ctor_ok)

\* the provider answers
ResumeSweep ==
    \E k \in 1..MaxRuns, response \in SweepResponses, commit_ok \in BOOLEAN,
       ctor_ok \in BOOLEAN :
        categorize_uncategorized_transactions_resume(k, response, commit_ok, ctor_ok)

\* an owner deletes a transaction, also while the job waits
SweepDeleteTransaction ==
    \E user_id \in SweepUsers, transaction_id \in 1..MaxOwners :
        delete_transaction(user_id, transaction_id)

NextSweep ==
    \/ RunSweep
    \/ ResumeSweep
    \/ SweepDeleteTransaction

SpecSweep == InitSweep /\ [][NextSweep]_vars

\* ------------------------------------------------------------ bank sync
\* db_bank_account.provider.lower()
LowerProvider(p) == Lower(p)

\* not db_bank_account.secret_id: the column is NULL or the empty string
SecretMissing(secret_id) == secret_id = NoSecret \/ secret_id = ""

\* POST /bank-accounts/
create_bank_account(user_id, provider, secret_id, name, account_type, secret_key) ==
    /\ Cardinality(bank_accounts) < MaxAccts
    /\ bank_accounts' = bank_accounts \cup
           {[id |-> NextId(bank_accounts), user_id |-> user_id, provider |-> provider,
             secret_id |-> secret_id, last_synced |-> None,
             name |-> name, account_type |-> account_type,
             secret_key |-> secret_key, updated_at |-> None]}
    /\ last' = [op |-> "create_bank_account", user |-> user_id, status |-> HTTP_200]
    /\ prev' = Summary(last)
    /\ UNCHANGED <<users, workers, sqlite_sequence, suspended, categories, transactions, now, autoflush, budget_periods,
                 envelope_allocations>>

\* DELETE /bank-accounts/{bank_account_id}: 404 when the caller has no such
\* account, else the row is deleted; no other table refers to it
delete_bank_account(user_id, bank_account_id) ==
    LET found == {a \in bank_accounts : a.id = bank_account_id /\ a.user_id = user_id}
    IN  /\ prev' = Summary(last)
        /\ last' = [op |-> "delete_bank_account", user |-> user_id,
                    status |-> IF found = {} THEN HTTP_404 ELSE HTTP_204,
                    target |-> bank_account_id]
        /\ bank_accounts' = bank_accounts \ found
        /\ UNCHANGED <<users, workers, sqlite_sequence, suspended, categories,
                       transactions, now, autoflush, budget_periods,
                       envelope_allocations>>

\* new_transaction = Transaction(..., category_id=uncategorized_category.id,
\* source="gocardless", external_id=..., notes=f"Status: ...")
NewTransaction(id, transaction_data, user_id, category_id) ==
    [id |-> id, user_id |-> user_id, category_id |-> category_id,
     external_id |-> transaction_data.id, source |-> "gocardless",
     amount |-> transaction_data.amount, notes |-> <<"Status">>,
     description |-> transaction_data.description, date |-> transaction_data.date,
     updated_at |-> None]

\* the loop of sync_bank_account over the fetched records
RECURSIVE IngestRecords(_, _, _, _, _)
IngestRecords(sess, records, user_id, category_id, flush) ==
    IF records = <<>> THEN sess
    ELSE LET transaction_data == Head(records)
             existing_transaction ==
                 {t \in Visible(sess, flush) :
                     t.external_id = transaction_data.id /\ t.user_id = user_id}
         IN  IF existing_transaction = {}
             THEN IngestRecords(
                      [sess EXCEPT !.pend.transactions = @ \cup
                          {NewTransaction(NextId(sess.pend.transactions),
                               transaction_data, user_id, category_id)}],
                      Tail(records), user_id, category_id, flush)
             ELSE IngestRecords(sess, Tail(records), user_id, category_id, flush)

\* the owner's categories named "Uncategorized"
UncategorizedCategories(user_id) ==
    {c \in categories : c.name = "Uncategorized" /\ c.user_id = user_id}

\* as SetLastSynced, leaving the stored value in place
SetLastSynced_Keep(sess, db_bank_account) == sess

\* db_bank_account.last_synced = datetime.now()
SetLastSynced(sess, db_bank_account) ==
    [sess EXCEPT !.pend.bank_accounts =
        {IF a.id = db_bank_account.id THEN [a EXCEPT !.last_synced = now] ELSE a
            : a \in sess.pend.bank_accounts}]

\* as SyncCommit, but a commit that raises has written the pending rows
SyncCommit_WritesThenRaises(sess, commit_ok) ==
    [raised |-> ~commit_ok, sess |-> Commit(sess)]

\* the commit that ends the sync (transactions.py:243)
SyncCommit(sess, commit_ok) ==
    IF commit_ok THEN [raised |-> FALSE, sess |-> Commit(sess)]
    ELSE [raised |-> TRUE, sess |-> sess]

\* the ways a sync can fail inside its try block
SyncFailures == {"client", "fetch", "commit"}

\* the try block of sync_bank_account and its except clause; failure: the
\* step that raises, or "none"; records: what the fetch returns
SyncTry(sess, db_bank_account, user_id, failure, records) ==
    IF failure \in {"client", "fetch"}
    THEN [status |-> HTTP_500, sess |-> sess]
    \* Category(..., color="#808080") raises: Category has no column color
    ELSE IF UncategorizedCategories(user_id) = {}
    THEN [status |-> HTTP_500, sess |-> sess]
    ELSE LET uncategorized_category ==
                 CHOOSE c \in UncategorizedCategories(user_id) :
                     \A d \in UncategorizedCategories(user_id) : c.id <= d.id
             ingested == IngestRecords(sess, records, user_id,
                             uncategorized_category.id, autoflush)
             done == SyncCommit(SetLastSynced(ingested, db_bank_account),
                         failure # "commit")
         IN  [status |-> IF done.raised THEN HTTP_500 ELSE HTTP_200,
              sess |-> done.sess]

\* POST /bank-accounts/{bank_account_id}/sync
sync_bank_account(user_id, bank_account_id, failure, records) ==
    LET account == {a \in bank_accounts : a.id = bank_account_id /\ a.user_id = user_id}
        db_bank_account == CHOOSE a \in account : TRUE
        fetched == [i \in 1..Len(records) |-> records[i].id]
        Respond(status, sess) ==
            /\ transactions' = SessionClose(sess).transactions
            /\ bank_accounts' = SessionClose(sess).bank_accounts
            /\ last' = [op |-> "sync_bank_account", user |-> user_id,
                        status |-> status, account |-> bank_account_id,
                        fetched |-> fetched]
    IN  /\ prev' = Summary(last)
        /\ IF account = {} THEN Respond(HTTP_404, NewSession)
           ELSE IF LowerProvider(db_bank_account.provider) # gocardless
           THEN Respond(HTTP_400, NewSession)
           ELSE IF SecretMissing(db_bank_account.secret_id)
           THEN Respond(HTTP_400, NewSession)
           ELSE LET out == SyncTry(NewSession, db_bank_account, user_id,
                               failure, records)
                IN  Respond(out.status, out.sess)
        /\ Cardinality(transactions') <= MaxTxns
        /\ UNCHANGED <<users, workers, sqlite_sequence, suspended, categories, now, autoflush, budget_periods, envelope_allocations>>

\* time passes
Tick ==
    /\ now < MaxNow
    /\ now' = now + 1
    /\ UNCHANGED <<users, workers, sqlite_sequence, suspended, categories, transactions, bank_accounts, autoflush, budget_periods,
                 envelope_allocations, last, prev>>

InitSync ==
    /\ categories = {}
    /\ transactions = {}
    /\ bank_accounts = {}
    /\ budget_periods = {}
    /\ envelope_allocations = {}
    /\ now = 0
    /\ autoflush \in BOOLEAN
    /\ last = NoRequest
    /\ prev = Summary(NoRequest)
    /\ workers = NoWorkers
    /\ users = RegisteredUsers
    /\ sqlite_sequence = NoSequence
    /\ suspended = NoRuns

SyncCreateCategory ==
    \E user_id \in Users, name \in CategoryNames : create_category(user_id, name, 0, ThisMonth)

\* the bank accounts the owners register: one that can be synced, written
\* in capitals, two without credentials (NULL and the empty string), one of
\* another provider
AccountKinds ==
    {<<GOCARDLESS, "token">>, <<GoCardless, NoSecret>>, <<GoCardless, "">>,
     <<Coinconductor, NoSecret>>}

CreateBankAccount ==
    \E user_id \in Users, kind \in AccountKinds :
        create_bank_account(user_id, kind[1], kind[2], "Main", "checking", "key")

\* the request gets as far as the try block: the account is the caller's, of
\* the provider GoCardless and with credentials
ReachesProvider(user_id, bank_account_id) ==
    \E a \in bank_accounts :
        /\ a.id = bank_account_id /\ a.user_id = user_id
        /\ LowerProvider(a.provider) = gocardless
        /\ ~SecretMissing(a.secret_id)

\* a step fails, and the provider returns records, only in a sync that gets
\* as far as the try block and its fetch
SyncBankAccount ==
    \E user_id \in Users, bank_account_id \in 1..MaxAccts :
        \E failure \in IF ReachesProvider(user_id, bank_account_id)
                       THEN {"none"} \cup SyncFailures ELSE {"none"} :
            \E records \in IF failure \in {"client", "fetch"}
                              \/ ~ReachesProvider(user_id, bank_account_id)
                           THEN {<<>>}
                           ELSE SeqsUpTo(Payments, MaxFetch) :
                sync_bank_account(user_id, bank_account_id, failure, records)

DeleteBankAccount ==
    \E user_id \in Users, bank_account_id \in 1..MaxAccts :
        delete_bank_account(user_id, bank_account_id)

NextSync ==
    \/ SyncCreateCategory
    \/ CreateBankAccount
    \/ Tick
    \/ SyncBankAccount

SpecSync == InitSync /\ [][NextSync]_vars

\* ------------------------------------------------------ budget periods
\* amounts are kept in hundredths of the currency unit
Incomes == {0, 300000}
AllocatedAmounts == {20000, 80000}
BudgetTransactionAmounts == {-65000, -5000}

\* the columns of the mapped class Transaction
TransactionColumns ==
    {"id", "amount", "description", "date", "category_id", "user_id", "source",
     "notes", "external_id", "created_at", "updated_at"}

\* func.sum(Transaction.amount) ... .scalar() or 0.0: 0 when no row matches
RECURSIVE SumAmount(_)
SumAmount(rows) ==
    IF rows = {} THEN 0
    ELSE LET r == CHOOSE x \in rows : TRUE
         IN  r.amount + SumAmount(rows \ {r})

RECURSIVE SumAllocated(_)
SumAllocated(rows) ==
    IF rows = {} THEN 0
    ELSE LET r == CHOOSE x \in rows : TRUE
         IN  r.allocated_amount + SumAllocated(rows \ {r})

\* db.query(func.sum(Transaction.amount)).filter(Transaction.category_id == ...,
\* Transaction.budget_period_id == ..., Transaction.user_id == ...).scalar() or 0.0
\* Transaction.budget_period_id raises AttributeError: the class has no such column
PeriodSpent(user_id, category_id, budget_period_id) ==
    IF "budget_period_id" \notin TransactionColumns
    THEN [raised |-> TRUE, value |-> 0]
    ELSE [raised |-> FALSE,
          value |-> SumAmount({t \in transactions :
                        /\ t.category_id = category_id
                        /\ t.budget_period_id = budget_period_id
                        /\ t.user_id = user_id})]

\* the loop of get_budget_period_with_allocations over the allocations
RECURSIVE AllocationTotals(_, _, _, _, _)
AllocationTotals(allocations, user_id, budget_period_id, total_allocated, total_spent) ==
    IF allocations = <<>>
    THEN [raised |-> FALSE, total_allocated |-> total_allocated,
          total_spent |-> total_spent]
    ELSE LET allocation == Head(allocations)
             spent == PeriodSpent(user_id, allocation.category_id, budget_period_id)
         IN  IF spent.raised
             THEN [raised |-> TRUE, total_allocated |-> total_allocated,
                   total_spent |-> total_spent]
             ELSE AllocationTotals(Tail(allocations), user_id, budget_period_id,
                      total_allocated + allocation.allocated_amount,
                      total_spent + spent.value)

NoSummary == [total_allocated |-> 0, total_spent |-> 0, total_remaining |-> 0,
              unallocated |-> 0]

\* GET /budget/periods/{budget_period_id}/
get_budget_period_with_allocations(user_id, budget_period_id) ==
    LET found == {p \in budget_periods : p.id = budget_period_id /\ p.user_id = user_id}
        budget_period == CHOOSE p \in found : TRUE
        allocations == OrderById({a \in envelope_allocations :
                           a.budget_period_id = budget_period_id})
        totals == AllocationTotals(allocations, user_id, budget_period_id, 0, 0)
    IN  /\ last' = [op |-> "read_budget_period", user |-> user_id,
                    period |-> budget_period_id,
                    status |-> IF found = {} THEN HTTP_404
                               ELSE IF totals.raised THEN HTTP_500 ELSE HTTP_200,
                    summary |-> IF found = {} \/ totals.raised THEN NoSummary
                                ELSE [total_allocated |-> totals.total_allocated,
                                      total_spent |-> totals.total_spent,
                                      total_remaining |-> totals.total_allocated
                                                            - totals.total_spent,
                                      unallocated |-> budget_period.total_income
                                                        - totals.total_allocated]]
        /\ prev' = Summary(last)
        /\ UNCHANGED <<users, workers, sqlite_sequence, suspended, categories, transactions, bank_accounts, now, autoflush,
                       budget_periods, envelope_allocations>>

\* ------------------------------------------------------------ datetimes
\* a datetime is counted in half days from 2024-01-01:
\* 2 * day at 00:00:00, 2 * day + 1 at 23:59:59

\* calendar.isleap
IsLeap(year) == (year % 4 = 0) /\ ((year % 100 # 0) \/ (year % 400 = 0))

\* calendar.monthrange(year, month)[1]
DaysInMonth(year, month) ==
    IF month = 2 THEN (IF IsLeap(year) THEN 29 ELSE 28)
    ELSE IF month \in {4, 6, 9, 11} THEN 30 ELSE 31

RECURSIVE DaysBeforeMonth(_, _)
DaysBeforeMonth(year, month) ==
    IF month = 1 THEN 0
    ELSE DaysBeforeMonth(year, month - 1) + DaysInMonth(year, month - 1)

RECURSIVE DaysBeforeYear(_)
DaysBeforeYear(year) ==
    IF year = 2024 THEN 0
    ELSE IF year > 2024
    THEN DaysBeforeYear(year - 1) + (IF IsLeap(year - 1) THEN 366 ELSE 365)
    ELSE DaysBeforeYear(year + 1) - (IF IsLeap(year) THEN 366 ELSE 365)

\* calendar.month_name
MonthNames ==
    <<"January", "February", "March", "April", "May", "June", "July",
      "August", "September", "October", "November", "December">>

\* first_day.strftime("%B %Y"), the name the handlers give a month's period;
\* a name is the sequence of its words
PeriodName(year, month) == <<MonthNames[month], year>>

\* datetime(year, month, day) and datetime(year, month, day, 23, 59, 59)
DateTime(year, month, day, end_of_day) ==
    2 * (DaysBeforeYear(year) + DaysBeforeMonth(year, month) + day - 1)
        + (IF end_of_day THEN 1 ELSE 0)

\* the ids the next INSERT into budget_periods and envelope_allocations gets
NewPeriodId == AutoIncrementId(budget_periods, sqlite_sequence.budget_periods)
NewAllocationId ==
    AutoIncrementId(envelope_allocations, sqlite_sequence.envelope_allocations)

\* POST /budget/periods/
create_budget_period(user_id, name, start_date, end_date, total_income) ==
    /\ Cardinality(budget_periods) < MaxPeriods
    /\ NewPeriodId <= MaxPeriodIds
    /\ budget_periods' = budget_periods \cup
           {[id |-> NewPeriodId, user_id |-> user_id, name |-> name,
             start_date |-> start_date, end_date |-> end_date,
             total_income |-> total_income, updated_at |-> None]}
    /\ sqlite_sequence' = [sqlite_sequence EXCEPT !.budget_periods = NewPeriodId]
    /\ last' = [op |-> "create_budget_period", user |-> user_id, status |-> HTTP_200]
    /\ prev' = Summary(last)
    /\ UNCHANGED <<users, workers, suspended, categories, transactions, bank_accounts, now, autoflush,
                   envelope_allocations>>

\* existing_allocation of create_envelope_allocation
ExistingAllocation(category_id, budget_period_id) ==
    {a \in envelope_allocations :
        a.category_id = category_id /\ a.budget_period_id = budget_period_id}

\* POST /budget/allocations/: the allocation is committed before the spent
\* amount of the response is computed. The coroutine has no await between its
\* first query and its return, so the event loop of one server process runs
\* a request to its end before it starts the next: there one request is one
\* step. AllocationCheck and AllocationStore are the request in one of
\* several server processes
create_envelope_allocation(user_id, budget_period_id, category_id, allocated_amount) ==
    LET budget_period == {p \in budget_periods :
                             p.id = budget_period_id /\ p.user_id = user_id}
        category == {c \in categories : c.id = category_id /\ c.user_id = user_id}
        Respond(status) ==
            last' = [op |-> "create_envelope_allocation", user |-> user_id,
                     status |-> status, period |-> budget_period_id,
                     category |-> category_id]
    IN  /\ prev' = Summary(last)
        /\ IF budget_period = {} \/ category = {}
           THEN Respond(HTTP_404)
                /\ UNCHANGED <<envelope_allocations, sqlite_sequence>>
           ELSE IF ExistingAllocation(category_id, budget_period_id) # {}
           THEN Respond(HTTP_400)
                /\ UNCHANGED <<envelope_allocations, sqlite_sequence>>
           ELSE /\ Cardinality(envelope_allocations) < MaxAllocs
                /\ NewAllocationId <= MaxAllocIds
                /\ sqlite_sequence' =
                       [sqlite_sequence EXCEPT !.envelope_allocations = NewAllocationId]
                /\ envelope_allocations' = envelope_allocations \cup
                       {[id |-> NewAllocationId,
                         allocated_amount |-> allocated_amount,
                         category_id |-> category_id,
                         budget_period_id |-> budget_period_id,
                         updated_at |-> None]}
                /\ Respond(IF PeriodSpent(user_id, category_id, budget_period_id).raised
                           THEN HTTP_500 ELSE HTTP_200)
        /\ UNCHANGED <<users, workers, suspended, categories, transactions, bank_accounts, now, autoflush,
                       budget_periods>>

\* db.query(EnvelopeAllocation).join(BudgetPeriod, ...).filter(
\*     EnvelopeAllocation.id == allocation_id, BudgetPeriod.user_id == current_user.id)
OwnedAllocation(user_id, allocation_id) ==
    {a \in envelope_allocations :
        /\ a.id = allocation_id
        /\ \E p \in budget_periods : p.id = a.budget_period_id /\ p.user_id = user_id}

\* PUT /budget/allocations/{allocation_id}/
update_envelope_allocation(user_id, allocation_id, allocation_update) ==
    LET found == OwnedAllocation(user_id, allocation_id)
        db_allocation == CHOOSE a \in found : TRUE
        Respond(status) ==
            last' = [op |-> "update_envelope_allocation", user |-> user_id,
                     status |-> status, target |-> allocation_id,
                     request |-> allocation_update]
    IN  /\ prev' = Summary(last)
        /\ IF found = {}
           THEN Respond(HTTP_404) /\ UNCHANGED envelope_allocations
           ELSE /\ envelope_allocations' =
                       (envelope_allocations \ {db_allocation}) \cup
                       {OnUpdate(db_allocation,
                            [db_allocation EXCEPT !.allocated_amount =
                                Provided(allocation_update, "allocated_amount", @)])}
                /\ Respond(IF PeriodSpent(user_id, db_allocation.category_id,
                                  db_allocation.budget_period_id).raised
                           THEN HTTP_500 ELSE HTTP_200)
        /\ UNCHANGED <<users, workers, sqlite_sequence, suspended, categories, transactions, bank_accounts, now, autoflush,
                       budget_periods>>

\* DELETE /budget/allocations/{allocation_id}/
delete_envelope_allocation(user_id, allocation_id) ==
    LET found == OwnedAllocation(user_id, allocation_id)
        Respond(status) ==
            last' = [op |-> "delete_envelope_allocation", user |-> user_id,
                     status |-> status, allocation |-> allocation_id]
    IN  /\ prev' = Summary(last)
        /\ IF found = {}
           THEN Respond(HTTP_404) /\ UNCHANGED envelope_allocations
           ELSE /\ envelope_allocations' = envelope_allocations \ found
                /\ Respond(HTTP_204)
        /\ UNCHANGED <<users, workers, sqlite_sequence, suspended, categories, transactions, bank_accounts, now, autoflush,
                       budget_periods>>

\* ------------------------------------------------------ budget: the system
InitBudget ==
    /\ categories = {}
    /\ transactions = {}
    /\ bank_accounts = {}
    /\ budget_periods = {}
    /\ envelope_allocations = {}
    /\ now = 0
    /\ autoflush = FALSE
    /\ last = NoRequest
    /\ prev = Summary(NoRequest)
    /\ workers = NoWorkers
    /\ users = RegisteredUsers
    /\ sqlite_sequence = NoSequence
    /\ suspended = NoRuns

BudgetCreateCategory ==
    \E user_id \in Users : create_category(user_id, "Food", 0, ThisMonth)

BudgetCreateTransaction ==
    \E user_id \in Users, category_id \in 1..MaxCats,
       amount \in BudgetTransactionAmounts :
        create_transaction(user_id, category_id, NoExt, amount, "manual", <<>>,
            <<"Coffee">>, 0)

CreateBudgetPeriod ==
    \E user_id \in Users, total_income \in Incomes :
        create_budget_period(user_id, PeriodName(2025, 3), DateTime(2025, 3, 1, FALSE),
            DateTime(2025, 3, 31, TRUE), total_income)

CreateEnvelopeAllocation ==
    \E user_id \in Users, budget_period_id \in 1..MaxPeriodIds,
       category_id \in 1..MaxCats, allocated_amount \in AllocatedAmounts :
        create_envelope_allocation(user_id, budget_period_id, category_id,
            allocated_amount)

UpdateEnvelopeAllocation ==
    \E user_id \in Users, allocation_id \in 1..MaxAllocIds,
       allocation_update \in PartialRecords([allocated_amount : AllocatedAmounts]) :
        update_envelope_allocation(user_id, allocation_id, allocation_update)

DeleteEnvelopeAllocation ==
    \E user_id \in Users, allocation_id \in 1..MaxAllocIds :
        delete_envelope_allocation(user_id, allocation_id)

ReadBudgetPeriod ==
    \E user_id \in Users, budget_period_id \in 1..MaxPeriodIds :
        get_budget_period_with_allocations(user_id, budget_period_id)

NextBudget ==
    \/ BudgetCreateCategory
    \/ BudgetCreateTransaction
    \/ CreateBudgetPeriod
    \/ CreateEnvelopeAllocation
    \/ UpdateEnvelopeAllocation
    \/ DeleteEnvelopeAllocation
    \/ ReadBudgetPeriod

SpecBudget == InitBudget /\ [][NextBudget]_vars

\* ------------------------------------------------------ category balance
\* as CategorySpent, without the filter on the category
CategorySpent_AllCategories(user_id, category_id) ==
    SumAmount({t \in transactions : t.user_id = user_id})

\* db.query(func.sum(Transaction.amount)).filter(Transaction.category_id ==
\* category.id, Transaction.user_id == current_user.id).scalar() or 0.0
CategorySpent(user_id, category_id) ==
    SumAmount({t \in transactions :
                  t.category_id = category_id /\ t.user_id = user_id})

\* as CategoryWithBalance, with spent counted as the money that went out
CategoryWithBalance_Outflow(user_id, category) ==
    [id |-> category.id, budget_amount |-> category.budget_amount,
     spent |-> 0 - CategorySpent(user_id, category.id),
     remaining |-> category.budget_amount + CategorySpent(user_id, category.id)]

\* CategoryWithBalance(..., spent=spent, remaining=category.budget_amount - spent)
CategoryWithBalance(user_id, category) ==
    [id |-> category.id, budget_amount |-> category.budget_amount,
     spent |-> CategorySpent(user_id, category.id),
     remaining |-> category.budget_amount - CategorySpent(user_id, category.id)]

\* GET /categories/{category_id}/
read_category(user_id, category_id) ==
    LET found == {c \in categories : c.id = category_id /\ c.user_id = user_id}
    IN  /\ last' = [op |-> "read_category", user |-> user_id,
                    status |-> IF found = {} THEN HTTP_404 ELSE HTTP_200,
                    category |-> category_id, month |-> "null",
                    balances |-> IF found = {} THEN <<>>
                                 ELSE <<CategoryWithBalance(user_id,
                                            CHOOSE c \in found : TRUE)>>]
        /\ prev' = Summary(last)
        /\ UNCHANGED <<users, workers, sqlite_sequence, suspended, categories, transactions, bank_accounts, now, autoflush,
                       budget_periods, envelope_allocations>>

\* if month: the parameter is given and is not the empty string ("null": the
\* parameter is absent, None)
MonthGiven(month) == month # "null" /\ month # ""

\* GET /categories/?month=
read_categories(user_id, month) ==
    LET listed == OrderById({c \in categories :
                      c.user_id = user_id /\ (MonthGiven(month) => c.month = month)})
    IN  /\ last' = [op |-> "read_categories", user |-> user_id, status |-> HTTP_200,
                    category |-> 0, month |-> month,
                    balances |-> [i \in 1..Len(listed) |->
                                     CategoryWithBalance(user_id, listed[i])]]
        /\ prev' = Summary(last)
        /\ UNCHANGED <<users, workers, sqlite_sequence, suspended, categories, transactions, bank_accounts, now, autoflush,
                       budget_periods, envelope_allocations>>

\* PUT /transactions/{transaction_id}/. The 404 for the category is raised
\* after amount, description and date were set on the loaded row and before
\* any commit; the request's session is closed without one
update_transaction(user_id, transaction_id, transaction_update) ==
    LET found == {t \in transactions : t.id = transaction_id /\ t.user_id = user_id}
        db_transaction == CHOOSE t \in found : TRUE
        Store(sess, row) ==
            [sess EXCEPT !.pend.transactions =
                {IF t.id = row.id THEN row ELSE t : t \in @}]
        before_category ==
            [db_transaction EXCEPT
                !.amount = Provided(transaction_update, "amount", @),
                !.description = Provided(transaction_update, "description", @),
                !.date = Provided(transaction_update, "date", @)]
        with_all ==
            [before_category EXCEPT
                !.category_id = Provided(transaction_update, "category_id", @),
                !.notes = Provided(transaction_update, "notes", @)]
        category_missing ==
            /\ IsGiven(transaction_update, "category_id")
            /\ transaction_update.category_id \notin AvailableIds(user_id)
        Respond(status, sess) ==
            /\ transactions' = SessionClose(sess).transactions
            /\ last' = [op |-> "update_transaction", user |-> user_id,
                        status |-> status, target |-> transaction_id,
                        request |-> transaction_update]
    IN  /\ prev' = Summary(last)
        /\ IF found = {} THEN Respond(HTTP_404, NewSession)
           ELSE IF category_missing
           THEN Respond(HTTP_404, Store(NewSession, before_category))
           ELSE Respond(HTTP_200, Commit(Store(NewSession, with_all)))
        /\ UNCHANGED <<users, workers, sqlite_sequence, suspended, categories, bank_accounts, now, autoflush, budget_periods,
                       envelope_allocations>>

\* ------------------------------------------------- balances: the system
BudgetAmounts == {0, 50000}
TransactionAmounts == {-12000, -4550}

InitBalance ==
    /\ categories = {}
    /\ transactions = {}
    /\ bank_accounts = {}
    /\ budget_periods = {}
    /\ envelope_allocations = {}
    /\ now = 0
    /\ autoflush = FALSE
    /\ last = NoRequest
    /\ prev = Summary(NoRequest)
    /\ workers = NoWorkers
    /\ users = RegisteredUsers
    /\ sqlite_sequence = NoSequence
    /\ suspended = NoRuns

BalanceCreateCategory ==
    \E user_id \in Users, budget_amount \in BudgetAmounts :
        create_category(user_id, "Food", budget_amount, ThisMonth)

BalanceCreateTransaction ==
    \E user_id \in Users, category_id \in {None} \cup 1..MaxCats,
       amount \in TransactionAmounts :
        create_transaction(user_id, category_id, NoExt, amount, "manual", <<>>,
            <<"Coffee">>, 0)

UpdateTransaction ==
    \E user_id \in Users, transaction_id \in 1..MaxTxns,
       transaction_update \in PartialRecords(
           [amount : TransactionAmounts, category_id : 1..MaxCats]) :
        update_transaction(user_id, transaction_id, transaction_update)

ReadCategory ==
    \E user_id \in Users, category_id \in 1..MaxCats :
        read_category(user_id, category_id)

ReadCategories ==
    \E user_id \in Users, month \in {"null", "", ThisMonth, NextMonth} :
        read_categories(user_id, month)

NextBalance ==
    \/ BalanceCreateCategory
    \/ BalanceCreateTransaction
    \/ UpdateTransaction
    \/ DeleteTransaction
    \/ ReadCategory
    \/ ReadCategories

SpecBalance == InitBalance /\ [][NextBalance]_vars

\* ------------------------------------------------------ GoCardless webhook
MaxEvents == 2
MaxNotes == 2

\* utils/gocardless.py: the placeholder answers True for every request
verify_webhook_signature(request_body, signature_header, webhook_secret) == TRUE

\* the events a payload carries: resource_type, action and links.payment
\* (NoExt: the event has no links.payment, event.get(...) gives None)
WebhookEvents ==
    {[resource_type |-> "payments", action |-> a, payment |-> p] :
        a \in {"confirmed", "created"}, p \in {"PM1", NoExt}}
    \cup {[resource_type |-> "mandates", action |-> "created", payment |-> NoExt]}

\* the request bodies: one that request.json() cannot parse, and the
\* payloads with up to MaxEvents events
WebhookPayloads ==
    {[parsed |-> FALSE, events |-> <<>>]} \cup
    {[parsed |-> TRUE, events |-> e] : e \in SeqsUpTo(WebhookEvents, MaxEvents)}

\* db.query(Transaction).filter(Transaction.external_id == payment_id).first();
\* with payment_id None the filter is external_id IS NULL
TransactionByExternalId(sess, payment_id) ==
    LET matching == {t \in sess.pend.transactions : t.external_id = payment_id}
    IN  IF matching = {} THEN {}
        ELSE {CHOOSE t \in matching : \A q \in matching : t.id <= q.id}

\* transaction.notes = f"{transaction.notes or ''}\nPayment <action> on ..."
AppendStatusNote(transaction, action) ==
    IF action \in {"confirmed", "failed", "cancelled"}
    THEN [transaction EXCEPT !.notes = Append(@, action)]
    ELSE transaction

\* the loop over payload["events"] from event i on; commit_fail: the index
\* of the event whose db.commit() raises, 0 for none
RECURSIVE ProcessEvents(_, _, _, _)
ProcessEvents(sess, events, i, commit_fail) ==
    IF i > Len(events) THEN [raised |-> FALSE, sess |-> sess]
    ELSE LET event == events[i]
             found == IF event.resource_type = "payments"
                      THEN TransactionByExternalId(sess, event.payment)
                      ELSE {}
         IN  IF found = {}
             THEN ProcessEvents(sess, events, i + 1, commit_fail)
             ELSE LET transaction == CHOOSE t \in found : TRUE
                      noted == [sess EXCEPT !.pend.transactions =
                                   (@ \ {transaction}) \cup
                                   {AppendStatusNote(transaction, event.action)}]
                  IN  IF i = commit_fail
                      THEN [raised |-> TRUE, sess |-> noted]
                      ELSE ProcessEvents(Commit(noted), events, i + 1, commit_fail)

\* the try block of gocardless_webhook; cause: the step that raised
WebhookTry(sess, signature_header, payload, commit_fail) ==
    IF ~verify_webhook_signature(payload, signature_header, "your_webhook_secret")
    THEN [raised |-> TRUE, cause |-> "signature", sess |-> sess]
    ELSE IF ~payload.parsed
    THEN [raised |-> TRUE, cause |-> "json", sess |-> sess]
    ELSE LET out == ProcessEvents(sess, payload.events, 1, commit_fail)
         IN  [raised |-> out.raised,
              cause |-> IF out.raised THEN "commit" ELSE "none",
              sess |-> out.sess]

\* as WebhookResponse, with the exception leaving the handler
WebhookResponse_Propagate(raised) ==
    [status |-> IF raised THEN HTTP_500 ELSE HTTP_200,
     body |-> IF raised THEN "error" ELSE "success"]

\* return {"status": "success"}; except Exception: return {"status": "error", ...}
\* under status_code=status.HTTP_200_OK
WebhookResponse(raised) ==
    [status |-> HTTP_200, body |-> IF raised THEN "error" ELSE "success"]

\* POST /bank-accounts/webhook; no current user
gocardless_webhook(signature_header, payload, commit_fail) ==
    LET out == WebhookTry(NewSession, signature_header, payload, commit_fail)
    IN  /\ \A t \in transactions : Len(t.notes) + Len(payload.events) <= MaxNotes
        /\ transactions' = SessionClose(out.sess).transactions
        /\ last' = [op |-> "gocardless_webhook", user |-> 0,
                    status |-> WebhookResponse(out.raised).status,
                    body |-> WebhookResponse(out.raised).body,
                    cause |-> out.cause]
        /\ prev' = Summary(last)
        /\ UNCHANGED <<users, workers, sqlite_sequence, suspended, categories, bank_accounts, now, autoflush, budget_periods,
                       envelope_allocations>>

\* --------------------------------------------------- the ledger: the system
\* every user has a category "Uncategorized"; user 1 has connected a
\* GoCardless account, so the payments of the provider are user 1's
BankUser == 1

InitLedger ==
    /\ categories = {[id |-> u, name |-> "Uncategorized", user_id |-> u,
                      budget_amount |-> 0, month |-> ThisMonth,
                      updated_at |-> None] : u \in Users}
    /\ transactions = {}
    /\ bank_accounts = {[id |-> 1, user_id |-> BankUser, provider |-> GoCardless,
                         secret_id |-> "token", last_synced |-> None,
                         name |-> "Main", account_type |-> "checking",
                         secret_key |-> "key", updated_at |-> None]}
    /\ budget_periods = {}
    /\ envelope_allocations = {}
    /\ now = 0
    /\ autoflush \in BOOLEAN
    /\ last = NoRequest
    /\ prev = Summary(NoRequest)
    /\ workers = NoWorkers
    /\ users = RegisteredUsers
    /\ sqlite_sequence = NoSequence
    /\ suspended = NoRuns

LedgerCreateTransaction ==
    \E user_id \in Users, external_id \in {NoExt, "PM1"} :
        create_transaction(user_id, None, external_id, 0, "manual", <<>>,
            <<"Coffee">>, 0)

LedgerUpdateTransaction ==
    \E user_id \in Users, transaction_id \in 1..MaxTxns,
       transaction_update \in PartialRecords([category_id : {1}]) :
        update_transaction(user_id, transaction_id, transaction_update)

LedgerDeleteTransaction ==
    \E user_id \in Users, transaction_id \in 1..MaxTxns :
        delete_transaction(user_id, transaction_id)

LedgerSyncBankAccount ==
    \E user_id \in Users, failure \in {"none", "commit"},
       records \in SeqsUpTo(Payments, MaxFetch) :
        sync_bank_account(user_id, 1, failure, records)

GocardlessWebhook ==
    \E signature_header \in {"", "sig"}, payload \in WebhookPayloads,
       commit_fail \in 0..MaxEvents :
        gocardless_webhook(signature_header, payload, commit_fail)

NextLedger ==
    \/ LedgerCreateTransaction
    \/ LedgerUpdateTransaction
    \/ LedgerDeleteTransaction
    \/ LedgerSyncBankAccount
    \/ GocardlessWebhook

SpecLedger == InitLedger /\ [][NextLedger]_vars

\* ------------------------------------------------------ cascading deletes
\* DELETE /budget/periods/{budget_period_id}/. BudgetPeriod.transactions
\* (models/budget.py:21) names a foreign key and an attribute
\* Transaction.budget_period that the mapped class Transaction does not have.
\* mapping = "as written": the mappers are configured at the first query
\* (budget.py:149), the relationship cannot be resolved and the request is
\* answered with 500 before the handler looks at a row. mapping =
\* "configured": the handler runs as written, 404 when the caller has no such
\* period, else the period is deleted and db.delete cascades to its
\* allocations (cascade "all, delete-orphan", models/budget.py:20); no
\* transaction is written
delete_budget_period(user_id, budget_period_id, mapping) ==
    LET found == {p \in budget_periods :
                     p.id = budget_period_id /\ p.user_id = user_id}
        allocations == {a \in envelope_allocations :
                           a.budget_period_id = budget_period_id}
        deleted == mapping = "configured" /\ found # {}
    IN  /\ prev' = Summary(last)
        /\ last' = [op |-> "delete_budget_period", user |-> user_id,
                    status |-> IF mapping # "configured" THEN HTTP_500
                               ELSE IF found = {} THEN HTTP_404 ELSE HTTP_204,
                    period |-> budget_period_id]
        /\ budget_periods' = IF deleted THEN budget_periods \ found
                             ELSE budget_periods
        /\ envelope_allocations' = IF deleted THEN envelope_allocations \ allocations
                                   ELSE envelope_allocations
        /\ UNCHANGED <<users, workers, sqlite_sequence, suspended, categories,
                       transactions, bank_accounts, now, autoflush>>

\* POST /auth/register/: 400 when the username or the email is taken, else a
\* new row of users (id INTEGER PRIMARY KEY: the largest id in use plus one)
register_user(username, email) ==
    LET taken == \/ \E u \in users : u.username = username
                 \/ \E u \in users : u.email = email
    IN  /\ taken \/ Max(UserIds) + 1 <= MaxUsers
        /\ users' = IF taken THEN users
                    ELSE users \cup {[id |-> Max(UserIds) + 1,
                                      username |-> username, email |-> email]}
        /\ last' = [op |-> "register_user",
                    user |-> IF taken THEN 0 ELSE Max(UserIds) + 1,
                    status |-> IF taken THEN HTTP_400 ELSE HTTP_200]
        /\ prev' = Summary(last)
        /\ UNCHANGED <<workers, sqlite_sequence, suspended, categories, transactions,
                       bank_accounts, now, autoflush, budget_periods,
                       envelope_allocations>>

\* PUT /users/me/: "null" is a field the request leaves out (None); 400 when
\* another row has the email or the username, and then nothing is committed
update_user(user_id, email, username) ==
    LET current_user == CHOOSE u \in users : u.id = user_id
        email_taken == /\ email # "null"
                       /\ \E u \in users : u.email = email /\ u.id # user_id
        username_taken == /\ username # "null"
                          /\ \E u \in users : u.username = username /\ u.id # user_id
        updated == [current_user EXCEPT
                       !.email = IF email # "null" THEN email ELSE @,
                       !.username = IF username # "null" THEN username ELSE @]
    IN  /\ user_id \in UserIds
        /\ users' = IF email_taken \/ username_taken THEN users
                    ELSE (users \ {current_user}) \cup {updated}
        /\ last' = [op |-> "update_user", user |-> user_id,
                    status |-> IF email_taken \/ username_taken
                               THEN HTTP_400 ELSE HTTP_200]
        /\ prev' = Summary(last)
        /\ UNCHANGED <<workers, sqlite_sequence, suspended, categories, transactions,
                       bank_accounts, now, autoflush, budget_periods,
                       envelope_allocations>>

\* what db.delete(user) does to the rows of one relationship of User: cascade
\* "delete" removes them, the default sets their user_id to NULL by an
\* UPDATE, which sets updated_at
OnDelete == {"delete", "nullify"}

\* DELETE /users/me/: db.delete(current_user); db.commit(). The mapped class
\* User is configured outside the routes, so each of its relationships to
\* categories, transactions, bank accounts and budget periods is either one
\* of OnDelete. A deleted category takes its transactions and allocations
\* with it, a deleted budget period its allocations. not_null: the table
\* budget_periods is the one of the migration, with user_id NOT NULL
\* (db/migrations.py:126), and not the one of the mapped class
\* (models/budget.py:14); setting user_id to NULL there fails the commit,
\* nothing is stored and the answer is 500.
delete_user(user_id, on_delete, not_null) ==
    LET current_user == CHOOSE u \in users : u.id = user_id
        own_categories == {c \in categories : c.user_id = user_id}
        own_transactions == {t \in transactions : t.user_id = user_id}
        own_bank_accounts == {b \in bank_accounts : b.user_id = user_id}
        own_budget_periods == {p \in budget_periods : p.user_id = user_id}
        flush_raises == /\ own_budget_periods # {}
                        /\ on_delete.budget_periods = "nullify"
                        /\ not_null
        del_categories == IF on_delete.categories = "delete"
                          THEN own_categories ELSE {}
        del_transactions ==
            (IF on_delete.transactions = "delete" THEN own_transactions ELSE {})
            \cup UNION {CategoryTransactions(c) : c \in del_categories}
        del_bank_accounts == IF on_delete.bank_accounts = "delete"
                             THEN own_bank_accounts ELSE {}
        del_budget_periods == IF on_delete.budget_periods = "delete"
                              THEN own_budget_periods ELSE {}
        del_allocations ==
            UNION {CategoryAllocations(c) : c \in del_categories}
            \cup {a \in envelope_allocations :
                     \E p \in del_budget_periods : a.budget_period_id = p.id}
        Orphan(row) == IF row.user_id = user_id
                       THEN [row EXCEPT !.user_id = None, !.updated_at = now]
                       ELSE row
    IN  /\ user_id \in UserIds
        /\ prev' = Summary(last)
        /\ last' = [op |-> "delete_user", user |-> user_id,
                    status |-> IF flush_raises THEN HTTP_500 ELSE HTTP_204,
                    removed |-> IF flush_raises THEN {}
                                ELSE {t.id : t \in del_transactions}]
        /\ IF flush_raises
           THEN UNCHANGED <<users, categories, transactions, bank_accounts,
                            budget_periods, envelope_allocations>>
           ELSE /\ users' = users \ {current_user}
                /\ categories' = {Orphan(c) : c \in categories \ del_categories}
                /\ transactions' =
                       {Orphan(t) : t \in transactions \ del_transactions}
                /\ bank_accounts' =
                       {Orphan(b) : b \in bank_accounts \ del_bank_accounts}
                /\ budget_periods' =
                       {Orphan(p) : p \in budget_periods \ del_budget_periods}
                /\ envelope_allocations' = envelope_allocations \ del_allocations
        /\ UNCHANGED <<workers, sqlite_sequence, suspended, now, autoflush>>

InitCascade ==
    /\ categories = {}
    /\ transactions = {}
    /\ bank_accounts = {}
    /\ budget_periods = {}
    /\ envelope_allocations = {}
    /\ now = 0
    /\ autoflush = FALSE
    /\ last = NoRequest
    /\ prev = Summary(NoRequest)
    /\ workers = NoWorkers
    /\ users = RegisteredUsers
    /\ sqlite_sequence = NoSequence
    /\ suspended = NoRuns

CascadeCreateCategory ==
    \E user_id \in UserIds : create_category(user_id, "Food", 0, ThisMonth)

\* a transaction entered in a category
CascadeCreateTransaction ==
    \E user_id \in UserIds, category_id \in 1..MaxCats :
        create_transaction(user_id, category_id, NoExt, 0, "manual", <<>>,
            <<"Coffee">>, 0)

CascadeCreateBudgetPeriod ==
    \E user_id \in UserIds :
        create_budget_period(user_id, PeriodName(2025, 3), DateTime(2025, 3, 1, FALSE),
            DateTime(2025, 3, 31, TRUE), 0)

CascadeCreateEnvelopeAllocation ==
    \E user_id \in UserIds, budget_period_id \in 1..MaxPeriodIds,
       category_id \in 1..MaxCats :
        create_envelope_allocation(user_id, budget_period_id, category_id, 20000)

DeleteBudgetPeriod ==
    \E user_id \in UserIds, budget_period_id \in 1..MaxPeriodIds,
       mapping \in {"configured", "as written"} :
        delete_budget_period(user_id, budget_period_id, mapping)

RegisterUser ==
    \E username \in Usernames, email \in Emails : register_user(username, email)

UpdateUser ==
    \E user_id \in UserIds, email \in Emails \cup {"null"},
       username \in Usernames \cup {"null"} :
        update_user(user_id, email, username)

DeleteUser ==
    \E user_id \in UserIds,
       on_delete \in [{"categories", "transactions", "bank_accounts",
                       "budget_periods"} -> OnDelete],
       not_null \in BOOLEAN :
        delete_user(user_id, on_delete, not_null)

NextCascade ==
    \/ CascadeCreateCategory
    \/ CascadeCreateTransaction
    \/ CascadeCreateBudgetPeriod
    \/ CascadeCreateEnvelopeAllocation
    \/ DeleteCategory
    \/ DeleteBudgetPeriod
    \/ DeleteUser

SpecCascade == InitCascade /\ [][NextCascade]_vars

\* the accounts of the application: registration, change and deletion of
\* users over a database that holds rows of both users
InitUsers ==
    /\ categories = {[id |-> 1, name |-> "Food", user_id |-> 1,
                      budget_amount |-> 0, month |-> ThisMonth,
                      updated_at |-> None]}
    /\ transactions = {[id |-> 1, user_id |-> 1, category_id |-> 1,
                        external_id |-> NoExt, source |-> "manual", amount |-> 0,
                        notes |-> <<>>,
                        description |-> <<"Coffee">>, date |-> 0, updated_at |-> None]}
    /\ bank_accounts = {[id |-> 1, user_id |-> 2, provider |-> GoCardless,
                         secret_id |-> "token", last_synced |-> None,
                         name |-> "Main", account_type |-> "checking",
                         secret_key |-> "key", updated_at |-> None]}
    /\ budget_periods = {}
    /\ envelope_allocations = {}
    /\ now = 0
    /\ autoflush = FALSE
    /\ last = NoRequest
    /\ prev = Summary(NoRequest)
    /\ workers = NoWorkers
    /\ users = RegisteredUsers
    /\ sqlite_sequence = NoSequence
    /\ suspended = NoRuns

UsersCreateBankAccount ==
    \E user_id \in UserIds : create_bank_account(user_id, GoCardless, "token", "Main", "checking", "key")

UsersDeleteBankAccount ==
    \E user_id \in UserIds, bank_account_id \in 1..MaxAccts :
        delete_bank_account(user_id, bank_account_id)

NextUsers ==
    \/ RegisterUser
    \/ UpdateUser
    \/ DeleteUser
    \/ CascadeCreateCategory
    \/ UsersCreateBankAccount
    \/ UsersDeleteBankAccount

SpecUsers == InitUsers /\ [][NextUsers]_vars

\* ------------------------------------------------------ budget period dates
\* the calendar day n days after year-month-day
RECURSIVE AddDays(_, _, _, _)
AddDays(year, month, day, n) ==
    IF n = 0 THEN [year |-> year, month |-> month, day |-> day]
    ELSE IF day < DaysInMonth(year, month) THEN AddDays(year, month, day + 1, n - 1)
    ELSE IF month < 12 THEN AddDays(year, month + 1, 1, n - 1)
    ELSE AddDays(year + 1, 1, 1, n - 1)

\* datetime.now().date(): the clock starts on the last day of March 2025
\* and a tick is one day
Today == AddDays(2025, 3, 31, now)

\* datetime(year, month, 1) raises ValueError outside MINYEAR..MAXYEAR
YearIsValid(year) == year >= 1 /\ year <= 9999

\* as MonthPeriod, with the two dates exchanged
MonthPeriod_Reversed(year, month) ==
    [first_day |-> DateTime(year, month, DaysInMonth(year, month), TRUE),
     last_day |-> DateTime(year, month, 1, FALSE)]

\* first_day = datetime(year, month, 1); last_day = datetime(year, month,
\* calendar.monthrange(year, month)[1], 23, 59, 59)
MonthPeriod(year, month) ==
    [first_day |-> DateTime(year, month, 1, FALSE),
     last_day |-> DateTime(year, month, DaysInMonth(year, month), TRUE)]

\* POST /budget/periods/create-monthly/
create_monthly_budget_period(user_id, year, month, total_income) ==
    LET Respond(status) ==
            last' = [op |-> "create_monthly_budget_period", user |-> user_id,
                     status |-> status]
    IN  /\ Cardinality(budget_periods) < MaxPeriods
        /\ prev' = Summary(last)
        /\ IF month < 1 \/ month > 12
           THEN Respond(HTTP_400) /\ UNCHANGED <<budget_periods, sqlite_sequence>>
           ELSE IF ~YearIsValid(year)
           THEN Respond(HTTP_500) /\ UNCHANGED <<budget_periods, sqlite_sequence>>
           ELSE /\ NewPeriodId <= MaxPeriodIds
                /\ sqlite_sequence' =
                       [sqlite_sequence EXCEPT !.budget_periods = NewPeriodId]
                /\ budget_periods' = budget_periods \cup
                       {[id |-> NewPeriodId, user_id |-> user_id,
                         name |-> PeriodName(year, month),
                         start_date |-> MonthPeriod(year, month).first_day,
                         end_date |-> MonthPeriod(year, month).last_day,
                         total_income |-> total_income, updated_at |-> None]}
                /\ Respond(HTTP_200)
        /\ UNCHANGED <<users, workers, suspended, categories, transactions, bank_accounts, now, autoflush,
                       envelope_allocations>>

\* the caller's periods that include today, compared at 00:00:00
CurrentPeriods(user_id) ==
    LET today == DateTime(Today.year, Today.month, Today.day, FALSE)
    IN  {p \in budget_periods :
            p.user_id = user_id /\ p.start_date <= today /\ p.end_date >= today}

\* GET /budget/periods/current/: the period that includes today, created
\* for the current month when there is none, then summarised
read_current_budget_period(user_id) ==
    LET current == CurrentPeriods(user_id)
        created == [id |-> NewPeriodId, user_id |-> user_id,
                    name |-> PeriodName(Today.year, Today.month),
                    start_date |-> MonthPeriod(Today.year, Today.month).first_day,
                    end_date |-> MonthPeriod(Today.year, Today.month).last_day,
                    total_income |-> 0, updated_at |-> None]
        budget_period == IF current = {} THEN created
                         ELSE CHOOSE p \in current : \A q \in current : p.id <= q.id
        allocations == OrderById({a \in envelope_allocations :
                           a.budget_period_id = budget_period.id})
        totals == AllocationTotals(allocations, user_id, budget_period.id, 0, 0)
    IN  /\ current = {} => /\ Cardinality(budget_periods) < MaxPeriods
                            /\ NewPeriodId <= MaxPeriodIds
        /\ budget_periods' = budget_periods \cup {budget_period}
        /\ sqlite_sequence' =
               IF current = {}
               THEN [sqlite_sequence EXCEPT !.budget_periods = NewPeriodId]
               ELSE sqlite_sequence
        /\ last' = [op |-> "read_current_budget_period", user |-> user_id,
                    period |-> budget_period.id,
                    status |-> IF totals.raised THEN HTTP_500 ELSE HTTP_200]
        /\ prev' = Summary(last)
        /\ UNCHANGED <<users, workers, suspended, categories, transactions, bank_accounts, now, autoflush,
                       envelope_allocations>>

\* PUT /budget/periods/{budget_period_id}/
update_budget_period(user_id, budget_period_id, budget_period_update) ==
    LET found == {p \in budget_periods :
                     p.id = budget_period_id /\ p.user_id = user_id}
        db_budget_period == CHOOSE p \in found : TRUE
    IN  /\ prev' = Summary(last)
        /\ last' = [op |-> "update_budget_period", user |-> user_id,
                    status |-> IF found = {} THEN HTTP_404 ELSE HTTP_200,
                    target |-> budget_period_id, request |-> budget_period_update]
        /\ IF found = {} THEN UNCHANGED budget_periods
           ELSE budget_periods' = (budget_periods \ found) \cup
                    {OnUpdate(db_budget_period,
                         [db_budget_period EXCEPT
                             !.name = Provided(budget_period_update, "name", @),
                             !.start_date =
                                 Provided(budget_period_update, "start_date", @),
                             !.end_date = Provided(budget_period_update, "end_date", @),
                             !.total_income =
                                 Provided(budget_period_update, "total_income", @)])}
        /\ UNCHANGED <<users, workers, sqlite_sequence, suspended, categories, transactions, bank_accounts, now, autoflush,
                       envelope_allocations>>

\* the dates the callers send
PeriodDates == {DateTime(2025, 3, 1, FALSE), DateTime(2025, 3, 31, TRUE)}

InitPeriods ==
    /\ categories = {}
    /\ transactions = {}
    /\ bank_accounts = {}
    /\ budget_periods = {}
    /\ envelope_allocations = {}
    /\ now = 0
    /\ autoflush = FALSE
    /\ last = NoRequest
    /\ prev = Summary(NoRequest)
    /\ workers = NoWorkers
    /\ users = RegisteredUsers
    /\ sqlite_sequence = NoSequence
    /\ suspended = NoRuns

PeriodsCreateBudgetPeriod ==
    \E user_id \in Users, start_date \in PeriodDates, end_date \in PeriodDates :
        create_budget_period(user_id, PeriodName(2025, 3), start_date, end_date, 0)

CreateMonthlyBudgetPeriod ==
    \E user_id \in Users, year \in {0, 2024, 2025}, month \in {0, 2, 12, 13} :
        create_monthly_budget_period(user_id, year, month, 0)

ReadCurrentBudgetPeriod ==
    \E user_id \in Users : read_current_budget_period(user_id)

UpdateBudgetPeriod ==
    \E user_id \in Users, budget_period_id \in 1..MaxPeriodIds,
       budget_period_update \in PartialRecords(
           [start_date : PeriodDates, end_date : PeriodDates]) :
        update_budget_period(user_id, budget_period_id, budget_period_update)

NextPeriods ==
    \/ PeriodsCreateBudgetPeriod
    \/ CreateMonthlyBudgetPeriod
    \/ ReadCurrentBudgetPeriod
    \/ UpdateBudgetPeriod
    \/ DeleteBudgetPeriod
    \/ Tick

SpecPeriods == InitPeriods /\ [][NextPeriods]_vars

\* ------------------------------------------------------ partial updates
\* PUT /categories/{category_id}/
update_category(user_id, category_id, category_update) ==
    LET found == {c \in categories : c.id = category_id /\ c.user_id = user_id}
        db_category == CHOOSE c \in found : TRUE
    IN  /\ prev' = Summary(last)
        /\ last' = [op |-> "update_category", user |-> user_id,
                    status |-> IF found = {} THEN HTTP_404 ELSE HTTP_200,
                    target |-> category_id, request |-> category_update]
        /\ IF found = {} THEN UNCHANGED categories
           ELSE categories' = (categories \ found) \cup
                    {OnUpdate(db_category,
                         [db_category EXCEPT
                             !.name = Provided(category_update, "name", @),
                             !.budget_amount =
                                 Provided(category_update, "budget_amount", @),
                             !.month = Provided(category_update, "month", @)])}
        /\ UNCHANGED <<users, workers, sqlite_sequence, suspended, transactions, bank_accounts, now, autoflush, budget_periods,
                       envelope_allocations>>

\* PUT /bank-accounts/{bank_account_id}
update_bank_account(user_id, bank_account_id, bank_account_update) ==
    LET found == {a \in bank_accounts : a.id = bank_account_id /\ a.user_id = user_id}
        db_bank_account == CHOOSE a \in found : TRUE
    IN  /\ prev' = Summary(last)
        /\ last' = [op |-> "update_bank_account", user |-> user_id,
                    status |-> IF found = {} THEN HTTP_404 ELSE HTTP_200,
                    target |-> bank_account_id, request |-> bank_account_update]
        /\ IF found = {} THEN UNCHANGED bank_accounts
           ELSE bank_accounts' = (bank_accounts \ found) \cup
                    {OnUpdate(db_bank_account,
                         [db_bank_account EXCEPT
                             !.name = Provided(bank_account_update, "name", @),
                             !.secret_id = Provided(bank_account_update, "secret_id", @),
                             !.secret_key =
                                 Provided(bank_account_update, "secret_key", @),
                             !.last_synced =
                                 Provided(bank_account_update, "last_synced", @)])}
        /\ UNCHANGED <<users, workers, sqlite_sequence, suspended, categories, transactions, now, autoflush, budget_periods,
                       envelope_allocations>>

\* the tables after user 1 has created a category, a budget period with an
\* allocation for the category, a bank account, and a transaction in the
\* category, and user 2 has created a transaction without category
InitUpdate ==
    /\ categories = {[id |-> 1, name |-> "Food", user_id |-> 1,
                      budget_amount |-> 0, month |-> ThisMonth,
                      updated_at |-> None]}
    /\ transactions =
           {[id |-> 1, user_id |-> 1, category_id |-> 1, external_id |-> NoExt,
             source |-> "manual", amount |-> 0, notes |-> <<>>,
             description |-> <<"Coffee">>, date |-> 0, updated_at |-> None],
            [id |-> 2, user_id |-> 2, category_id |-> None, external_id |-> NoExt,
             source |-> "manual", amount |-> 0, notes |-> <<>>,
             description |-> <<"Coffee">>, date |-> 0, updated_at |-> None]}
    /\ bank_accounts = {[id |-> 1, user_id |-> 1, provider |-> GoCardless,
                         secret_id |-> NoSecret, last_synced |-> None,
                         name |-> "Main", account_type |-> "checking",
                         secret_key |-> "key", updated_at |-> None]}
    /\ budget_periods = {[id |-> 1, user_id |-> 1, name |-> PeriodName(2025, 3),
                          start_date |-> DateTime(2025, 3, 1, FALSE),
                          end_date |-> DateTime(2025, 3, 31, TRUE),
                          total_income |-> 0, updated_at |-> None]}
    /\ envelope_allocations = {[id |-> 1, allocated_amount |-> 20000,
                                category_id |-> 1, budget_period_id |-> 1,
                                updated_at |-> None]}
    /\ now = 0
    /\ autoflush = FALSE
    /\ last = NoRequest
    /\ prev = Summary(NoRequest)
    /\ workers = NoWorkers
    /\ users = RegisteredUsers
    /\ sqlite_sequence = [budget_periods |-> 1, envelope_allocations |-> 1]
    /\ suspended = NoRuns

PutTransaction ==
    \E user_id \in Users, transaction_id \in 1..MaxTxns,
       transaction_update \in PartialRecords(
           [amount : {-4550}, description : {<<"Lunch">>},
            category_id : 1..MaxCats \cup {None}]) :
        update_transaction(user_id, transaction_id, transaction_update)

PutCategory ==
    \E user_id \in Users, category_id \in 1..MaxCats,
       category_update \in PartialRecords(
           [name : {"Uncategorized"}, budget_amount : {None}]) :
        update_category(user_id, category_id, category_update)

PutBudgetPeriod ==
    \E user_id \in Users, budget_period_id \in 1..MaxPeriodIds,
       budget_period_update \in PartialRecords(
           [name : {<<"Holiday", 2025>>}, end_date : {DateTime(2025, 4, 30, TRUE)}]) :
        update_budget_period(user_id, budget_period_id, budget_period_update)

PutEnvelopeAllocation ==
    \E user_id \in Users, allocation_id \in 1..MaxAllocIds,
       allocation_update \in PartialRecords([allocated_amount : {80000}]) :
        update_envelope_allocation(user_id, allocation_id, allocation_update)

PutBankAccount ==
    \E user_id \in Users, bank_account_id \in 1..MaxAccts,
       bank_account_update \in PartialRecords(
           [name : {"Savings"}, secret_id : {NoSecret}, secret_key : {"secret"}]) :
        update_bank_account(user_id, bank_account_id, bank_account_update)

NextUpdate ==
    \/ PutTransaction
    \/ PutCategory
    \/ PutBudgetPeriod
    \/ PutEnvelopeAllocation
    \/ PutBankAccount
    \/ DeleteBankAccount

SpecUpdate == InitUpdate /\ [][NextUpdate]_vars

\* ------------------------------------------- ingest and categorization
\* user 1 has connected a GoCardless account and has the category
\* "Uncategorized"; user 2 has a category "Food"
InitIngest ==
    /\ categories = {[id |-> 1, name |-> "Uncategorized", user_id |-> BankUser,
                      budget_amount |-> 0, month |-> ThisMonth,
                      updated_at |-> None],
                     [id |-> 2, name |-> "Food", user_id |-> 2,
                      budget_amount |-> 0, month |-> ThisMonth,
                      updated_at |-> None]}
    /\ transactions = {}
    /\ bank_accounts = {[id |-> 1, user_id |-> BankUser, provider |-> GoCardless,
                         secret_id |-> "token", last_synced |-> None,
                         name |-> "Main", account_type |-> "checking",
                         secret_key |-> "key", updated_at |-> None]}
    /\ budget_periods = {}
    /\ envelope_allocations = {}
    /\ now = 0
    /\ autoflush = FALSE
    /\ last = NoRequest
    /\ prev = Summary(NoRequest)
    /\ workers = NoWorkers
    /\ users = RegisteredUsers
    /\ sqlite_sequence = NoSequence
    /\ suspended = NoRuns

\* a transaction entered by hand, without a category
EnterTransaction ==
    \E user_id \in Users :
        create_transaction(user_id, None, NoExt, 0, "manual", <<>>, <<"Coffee">>, 0)

\* a sync by the account's owner whose client, fetch and commit do not fail
SyncWithoutFailure ==
    \E user_id \in {BankUser}, records \in SeqsUpTo(Payments, MaxFetch) :
        sync_bank_account(user_id, 1, "none", records)

MoveTransaction ==
    \E user_id \in Users, transaction_id \in 1..MaxTxns,
       transaction_update \in PartialRecords([category_id : 1..MaxCats]) :
        update_transaction(user_id, transaction_id, transaction_update)

\* the provider's answers of a run: for every transaction the id of one of
\* the candidates it was given
IngestResponses == {TextResponse(<<"1">>), TextResponse(<<"2">>)}
NamesCandidate(run, response) ==
    IntOf(response.text) \in {c.id : c \in run.available}

\* a bulk categorization in which no provider call and no commit fails
BulkWithoutFailure ==
    \E user_id \in Users : bulk_categorize_transactions(user_id, TRUE)

BulkAnswered ==
    \E k \in 1..MaxRuns, response \in IngestResponses :
        /\ suspended[k].kind = "bulk"
        /\ NamesCandidate(suspended[k], response)
        /\ bulk_categorize_transactions_resume(k, response, TRUE, TRUE)

\* a background run in which no provider call and no commit fails
SweepWithoutFailure == categorize_uncategorized_transactions(TRUE)

SweepAnswered ==
    \E k \in 1..MaxRuns, response \in IngestResponses :
        /\ suspended[k].kind = "sweep"
        /\ NamesCandidate(suspended[k], response)
        /\ categorize_uncategorized_transactions_resume(k, response, TRUE, TRUE)

NextIngest ==
    \/ EnterTransaction
    \/ MoveTransaction
    \/ SyncWithoutFailure
    \/ BulkWithoutFailure
    \/ BulkAnswered
    \/ SweepWithoutFailure
    \/ SweepAnswered
    \/ DeleteCategory

SpecIngest == InitIngest /\ [][NextIngest]_vars

\* ------------------------------- requests served while a run waits
\* user 1 has the categories "Food" and "Uncategorized" and two
\* uncategorized transactions; bulk runs and background runs are started
\* and answered, and in between the user moves a transaction to a category,
\* deletes a transaction or deletes a category
InitAwait ==
    /\ categories = {[id |-> 1, name |-> "Food", user_id |-> 1,
                      budget_amount |-> 0, month |-> ThisMonth,
                      updated_at |-> None],
                     [id |-> 2, name |-> "Uncategorized", user_id |-> 1,
                      budget_amount |-> 0, month |-> ThisMonth,
                      updated_at |-> None]}
    /\ transactions = {[id |-> i, user_id |-> 1, category_id |-> None,
                        external_id |-> NoExt, source |-> "manual",
                        amount |-> 0, notes |-> <<>>,
                        description |-> <<"Coffee">>, date |-> 0, updated_at |-> None] : i \in 1..MaxTxns}
    /\ bank_accounts = {}
    /\ budget_periods = {}
    /\ envelope_allocations = {}
    /\ now = 0
    /\ autoflush = FALSE
    /\ last = NoRequest
    /\ prev = Summary(NoRequest)
    /\ workers = NoWorkers
    /\ users = RegisteredUsers
    /\ sqlite_sequence = NoSequence
    /\ suspended = NoRuns

NextAwait ==
    \/ BulkWithoutFailure
    \/ BulkAnswered
    \/ SweepWithoutFailure
    \/ SweepAnswered
    \/ MoveTransaction
    \/ DeleteTransaction
    \/ DeleteCategory

SpecAwait == InitAwait /\ [][NextAwait]_vars

\* ------------------------------------------------ the adapter on its own
\* one call of categorize_transaction for transaction 1 of user 1, with a
\* provider response, a candidate list and (has_db) a session to write to
AdapterTransaction ==
    [id |-> 1, user_id |-> 1, category_id |-> None, external_id |-> NoExt,
     source |-> "manual", amount |-> 0, notes |-> <<>>,
     description |-> <<"Coffee">>, date |-> 0, updated_at |-> None]

InitAdapter ==
    /\ categories = {}
    /\ transactions = {AdapterTransaction}
    /\ bank_accounts = {}
    /\ budget_periods = {}
    /\ envelope_allocations = {}
    /\ now = 0
    /\ autoflush = FALSE
    /\ \E response \in Responses, available \in SUBSET (1..MaxCats),
          has_db \in BOOLEAN, commit_ok \in BOOLEAN :
            last = [op |-> "call", user |-> 1, status |-> 0, response |-> response,
                    available |-> available, has_db |-> has_db, commit_ok |-> commit_ok]
    /\ prev = Summary(NoRequest)
    /\ workers = NoWorkers
    /\ users = RegisteredUsers
    /\ sqlite_sequence = NoSequence
    /\ suspended = NoRuns

CallCategorizer ==
    /\ last.op = "call"
    /\ LET out == CategorizeTransaction(last.has_db, NewSession,
                      last.response, last.available, AdapterTransaction.id,
                      last.commit_ok)
       IN  /\ transactions' = SessionClose(out.sess).transactions
           /\ last' = [op |-> "categorize_transaction", user |-> 1, status |-> 0,
                       response |-> last.response, available |-> last.available,
                       has_db |-> last.has_db, commit_ok |-> last.commit_ok,
                       raised |-> out.raised, value |-> out.value]
    /\ UNCHANGED <<users, workers, sqlite_sequence, suspended, categories, bank_accounts, now, autoflush, budget_periods,
                 envelope_allocations, prev>>

NextAdapter == CallCategorizer

SpecAdapter == InitAdapter /\ [][NextAdapter]_vars

\* ===================================================================
\* Properties
\* ===================================================================
LastIsBulk == last.op = "bulk_categorize"

\* two bulk runs of one user, the second called right after the first has
\* responded, and no request has changed a transaction while either waited
\* for the provider or between the two
TwoBulkRuns ==
    /\ LastIsBulk /\ prev.op = "bulk_categorize" /\ prev.user = last.user
    /\ last.follows = prev /\ last.alone /\ prev.alone

\* C4 as stated: when bulk_categorize_transactions runs twice in a row for a
\* user with nothing created or changed in between, the second run returns
\* an empty result list.
C4_SecondRunEmpty ==
    (TwoBulkRuns /\ prev.status = HTTP_200 /\ last.status = HTTP_200) =>
        last.results = <<>>

\* C4 amended: after a successful first run, the second run selects exactly
\* the transactions the first run reported without a suggestion; it returns
\* an empty list when the first run left none.
C4_SecondRunSelectsUnsuggested ==
    (TwoBulkRuns /\ prev.status = HTTP_200) =>
        /\ Range(last.selected) = prev.unsuggested
        /\ prev.unsuggested = {} => (last.status = HTTP_200 /\ last.results = <<>>)

C4_Witness ==
    /\ TwoBulkRuns
    /\ prev.status = HTTP_200
    /\ prev.assigned # {}
    /\ prev.unsuggested = {}
    /\ last.status = HTTP_200
    /\ last.results = <<>>

HasNoCategory(user_id) == ~\E c \in categories : c.user_id = user_id

\* C5 as stated: a bulk run by a user with zero categories fails with HTTP
\* 400 and modifies no transaction, whether or not the user has an
\* uncategorized transaction.
C5_ZeroCategoriesAlways400 ==
    (LastIsBulk /\ HasNoCategory(last.user)) =>
        (last.status = HTTP_400 /\ last.changed = {})

\* C5 amended: a bulk run by a user with zero categories modifies no
\* transaction; it fails with HTTP 400 when the user has an uncategorized
\* transaction and returns an empty list with HTTP 200 when the user has none.
C5_ZeroCategories ==
    (LastIsBulk /\ HasNoCategory(last.user)) =>
        /\ last.changed = {}
        /\ last.results = <<>>
        /\ last.status = IF last.selected # <<>> THEN HTTP_400 ELSE HTTP_200

C5_Witness ==
    /\ LastIsBulk
    /\ HasNoCategory(last.user)
    /\ last.selected # <<>>
    /\ last.status = HTTP_400
    /\ \E t \in transactions : t.user_id = last.user /\ t.category_id = None

\* the transactions of the owners the sweep processes (owners without a
\* category are skipped before any transaction of theirs is looked at)
SweepBatch ==
    {t.id : t \in {x \in Range(last.selection) : x.user_id \notin last.skipped}}

\* C8 as stated: in the background sweep, a transaction whose categorization
\* raises is not written by the sweep, so it is left uncategorized when no
\* other request changed table transactions while the sweep waited, and
\* every other transaction of the sweep, of the same owner and of the other
\* owners, is still attempted (unless the categorizer of a later owner
\* cannot be built, which ends the job).
C8_SweepContinuesAfterRaise ==
    (last.op = "sweep" /\ last.raised # {} /\ last.outer # "ctor") =>
        /\ \A id \in last.raised :
              /\ \A t \in last.changed : t.id # id
              /\ last.alone =>
                    \E t \in transactions : t.id = id /\ t.category_id \in {None, 0}
        /\ \A id \in SweepBatch : id \in Range(last.attempted)

\* C9 as stated: in bulk_categorize_transactions, when categorizing one
\* transaction raises, the remaining transactions of the batch are still
\* attempted and the call returns its report.
C9_BulkContinuesAfterRaise ==
    (LastIsBulk /\ last.raised # None) =>
        (last.status = HTTP_200 /\ last.attempted = Len(last.selected))

\* C10: when a bulk run fails, every transaction that received a suggestion
\* before the failure has that category in storage.
C10_PartialProgressSurvives ==
    (LastIsBulk /\ last.status = HTTP_500) =>
        \A r \in Range(last.progress) :
            r.category_id # None =>
                \E t \in transactions :
                    t.id = r.transaction_id /\ t.category_id = r.category_id

C10_Witness ==
    /\ LastIsBulk
    /\ last.status = HTTP_500
    /\ last.raised # None
    /\ \E r \in Range(last.progress) :
          /\ r.category_id # None
          /\ \E t \in transactions :
                t.id = r.transaction_id /\ t.category_id = r.category_id

LastIsAdapterCall == last.op = "categorize_transaction"

\* C6: categorize_transaction returns None or an id of the candidate list,
\* and the transaction it writes to never gets an id outside the list.
C6_OnlyCandidateIds ==
    LastIsAdapterCall =>
        /\ ~last.raised => (last.value = None \/ last.value \in last.available)
        /\ \A t \in transactions :
              t.category_id = None \/ t.category_id \in last.available

\* the provider names an id that is no candidate
C6_Witness ==
    /\ LastIsAdapterCall
    /\ last.response = TextResponse(<<"3">>)
    /\ last.available = {1, 2}
    /\ last.has_db
    /\ ~last.raised
    /\ last.value = None
    /\ \A t \in transactions : t.category_id = None

\* the text is a decimal integer, surrounding whitespace aside
IsIntegerText(text) ==
    LET body == Strip(text)
    IN  body # <<>> /\ \A i \in 1..Len(body) : body[i] \in Digits

\* the text is the token none, in any case
IsNoneText(text) == Lower(Strip(text)) = <<"n", "o", "n", "e">>

NeitherIntegerNorNone(response) ==
    ~response.raised /\ ~IsIntegerText(response.text) /\ ~IsNoneText(response.text)

\* C7 as stated: a provider text that is neither an integer nor the token
\* none makes categorize_transaction return None without raising; a failed
\* provider call makes it raise.
C7_UnparsableIsNoSuggestion ==
    LastIsAdapterCall =>
        /\ NeitherIntegerNorNone(last.response) =>
              (~last.raised /\ last.value = None)
        /\ last.response.raised => last.raised

HasLetterN(text) == \E i \in 1..Len(text) : text[i] \in {"n", "N"}
DigitsOf(text) == SelectSeq(text, LAMBDA c : c \in Digits)

\* the digits of the text, read together, are the id of a candidate
DigitsNameCandidate(text, available) ==
    /\ ~HasLetterN(text)
    /\ DigitsOf(text) # <<>>
    /\ IntOf(DigitsOf(text)) \in available

\* C7 amended: a provider text that is neither an integer nor the token none
\* makes categorize_transaction return None without raising, unless the text
\* has no letter n and its digits read together are a candidate id: then the
\* call treats the text as that id. A failed provider call makes it raise.
C7_UnparsableUnlessDigitsNameCandidate ==
    LastIsAdapterCall =>
        /\ (NeitherIntegerNorNone(last.response)
              /\ ~DigitsNameCandidate(last.response.text, last.available)) =>
              (~last.raised /\ last.value = None)
        /\ (NeitherIntegerNorNone(last.response)
              /\ DigitsNameCandidate(last.response.text, last.available)) =>
              \/ ~last.raised /\ last.value = IntOf(DigitsOf(last.response.text))
              \/ last.raised /\ last.has_db /\ ~last.commit_ok
        /\ last.response.raised => last.raised

\* int() rejects the text left after the filter: no suggestion, no exception
C7_Witness ==
    /\ LastIsAdapterCall
    /\ last.response = TextResponse(<<"1", "n">>)
    /\ last.available = {1}
    /\ ~last.raised
    /\ last.value = None

\* ---- bank sync
LastIsSync == last.op = "sync_bank_account"

\* the step is a call of sync_bank_account
SyncStep == last'.op = "sync_bank_account" /\ now' = now

ExternalIdsOf(user_id, rows) ==
    {t.external_id : t \in {x \in rows : x.user_id = user_id}}

\* C1 as stated: whatever the syncs fetched, and however often they fetched
\* a record r, the owner has at most one transaction with external_id r.id.
C1_OneTransactionPerRecord ==
    \A user_id \in Users, payment_id \in PaymentIds :
        Cardinality({t \in transactions :
            t.user_id = user_id /\ t.external_id = payment_id}) <= 1

\* one fetch returned the same record twice
C1_Witness ==
    /\ LastIsSync
    /\ last.status = HTTP_200
    /\ \E i, j \in 1..Len(last.fetched) : i # j /\ last.fetched[i] = last.fetched[j]

\* C2: a sync that completes sets the account's last_synced to the time of
\* the call, whatever number of records it fetched and inserted.
C2_WatermarkAdvances ==
    [][(SyncStep /\ last'.status = HTTP_200) =>
          \E a \in bank_accounts' :
              /\ a.id = last'.account
              /\ a.user_id = last'.user
              /\ a.last_synced = now]_vars

\* a sync that fetched nothing set the watermark to the time of the call
C2_Witness ==
    /\ LastIsSync
    /\ last.status = HTTP_200
    /\ last.fetched = <<>>
    /\ now > 0
    /\ \E a \in bank_accounts : a.id = last.account /\ a.last_synced = now

\* C3: a sync that fails returns an error and leaves the watermark and the
\* stored transactions as they were before the call.
C3_FailedSyncChangesNothing ==
    [][(SyncStep /\ last'.status # HTTP_200) =>
          /\ last'.status \in {HTTP_400, HTTP_404, HTTP_500}
          /\ bank_accounts' = bank_accounts
          /\ transactions' = transactions]_vars

\* the final commit of a sync that had a record to insert raised
C3_Witness ==
    /\ LastIsSync
    /\ last.status = HTTP_500
    /\ last.fetched # <<>>
    /\ \E a \in bank_accounts :
          /\ a.id = last.account
          /\ a.user_id = last.user
          /\ a.secret_id # NoSecret
          /\ a.last_synced = None
    /\ UncategorizedCategories(last.user) # {}
    /\ ExternalIdsOf(last.user, transactions) = {}

\* ---- the sweep's per-owner commit
\* C11: when the commit of one owner's batch fails in the background sweep,
\* the sweep has written no transaction of that owner, and every batch after
\* the failing one is processed; when no other request changed table
\* transactions while the sweep waited, the transactions of that owner the
\* sweep had a suggestion for are uncategorized and those of the other
\* owners, processed before or after, have their category stored.
C11_CommitFailureIsPerOwner ==
    (last.op = "sweep" /\ last.status = HTTP_200) =>
        /\ last.alone => \A id \in last.suggested :
              \E t \in transactions :
                  /\ t.id = id
                  /\ t.user_id \in last.commit_fail => IsUncategorized(t)
                  /\ t.user_id \notin last.commit_fail => ~IsUncategorized(t)
        /\ \A t \in last.changed : t.user_id \notin last.commit_fail
        /\ \A id \in SweepBatch : id \in Range(last.attempted)

\* three owners got a suggestion; the commit of the second one failed
C11_Witness ==
    /\ last.op = "sweep"
    /\ Len(last.attempted) = 3
    /\ \A i \in 1..3 : last.attempted[i] \in last.suggested
    /\ \E a, b, c \in transactions :
          /\ a.id = last.attempted[1] /\ b.id = last.attempted[2]
          /\ c.id = last.attempted[3]
          /\ Cardinality({a.user_id, b.user_id, c.user_id}) = 3
          /\ last.commit_fail = {b.user_id}
          /\ ~IsUncategorized(a) /\ IsUncategorized(b) /\ ~IsUncategorized(c)

\* ---- categorization leaves categorized transactions alone
\* the step is one of a categorization run: a run starts, goes on or
\* responds (every step is one of a handler, which leaves its response)
RunStep ==
    \/ suspended' # suspended
    \/ last'.op \in {"bulk_categorize", "sweep"}

\* C12: no step of a bulk run or of a background sweep changes a transaction
\* whose category_id is a non-null, non-zero id: every such row is the same
\* after the step as before it.
C12_CategorizedUntouched ==
    [][RunStep =>
          \A t \in transactions :
              (t.category_id # None /\ t.category_id # 0) => t \in transactions']_vars

\* ---- budget period summary
LastIsPeriodRead ==
    /\ last.op = "read_budget_period"
    /\ \E p \in budget_periods : p.id = last.period /\ p.user_id = last.user

PeriodRead == CHOOSE p \in budget_periods : p.id = last.period

AllocationsRead == {a \in envelope_allocations : a.budget_period_id = last.period}

\* C13 as stated: for every budget period of the caller, the summary
\* get_budget_period_with_allocations returns has total_allocated = the sum
\* of the allocated amounts, total_remaining = total_allocated - total_spent
\* and unallocated = total_income - total_allocated.
C13_SummaryTotals ==
    LastIsPeriodRead =>
        /\ last.status = HTTP_200
        /\ last.summary.total_allocated = SumAllocated(AllocationsRead)
        /\ last.summary.total_remaining =
               last.summary.total_allocated - last.summary.total_spent
        /\ last.summary.unallocated =
               PeriodRead.total_income - last.summary.total_allocated

\* the transactions of the caller in one category
SpentIn(category_id) ==
    SumAmount({t \in transactions :
                  t.user_id = last.user /\ t.category_id = category_id})

\* the period of the scenario: income 3000.00, 800.00 allocated to one
\* category and 200.00 to another, transactions of -650.00 and -50.00
IsScenarioPeriod ==
    /\ LastIsPeriodRead
    /\ PeriodRead.total_income = 300000
    /\ \E a, b \in AllocationsRead :
          /\ AllocationsRead = {a, b}
          /\ a.category_id # b.category_id
          /\ a.allocated_amount = 80000 /\ b.allocated_amount = 20000
          /\ SpentIn(a.category_id) = -65000
          /\ SpentIn(b.category_id) = -5000

\* C14 as stated: the summary of the scenario period reports total_allocated
\* 1000.00, total_spent 700.00, total_remaining 300.00, unallocated 2000.00.
C14_ScenarioSummary ==
    IsScenarioPeriod =>
        /\ last.status = HTTP_200
        /\ last.summary = [total_allocated |-> 100000, total_spent |-> 70000,
                           total_remaining |-> 30000, unallocated |-> 200000]

\* ---- envelope allocations
OneAllocationPerPair ==
    \A a, b \in envelope_allocations :
        (a.category_id = b.category_id /\ a.budget_period_id = b.budget_period_id)
            => a = b

\* the step is a create_envelope_allocation request of the owner of the
\* period and of the category, for a pair that has an allocation
CreateForTakenPair ==
    /\ last'.op = "create_envelope_allocation"
    /\ \E p \in budget_periods : p.id = last'.period /\ p.user_id = last'.user
    /\ \E c \in categories : c.id = last'.category /\ c.user_id = last'.user
    /\ \E a \in envelope_allocations :
          a.category_id = last'.category /\ a.budget_period_id = last'.period

\* C20 as stated: there is at most one envelope allocation per (category,
\* budget period) pair in every state; a create_envelope_allocation for a
\* pair that has one is answered with HTTP 400 and adds nothing, also when
\* two create requests for the same pair interleave.
C20_OneAllocationPerPair ==
    [][/\ OneAllocationPerPair'
       /\ CreateForTakenPair =>
             (last'.status = HTTP_400 /\ envelope_allocations' = envelope_allocations)]_vars


\* ------------------------------------------------------------------ C15
LastIsBalanceRead ==
    last.op \in {"read_category", "read_categories"} /\ last.status = HTTP_200

\* the caller's transactions assigned to the category
AssignedTo(user_id, category_id) ==
    {t \in transactions : t.user_id = user_id /\ t.category_id = category_id}

\* C15: in the answers of read_category and read_categories, spent of a
\* category is the sum of the amounts of the caller's transactions whose
\* category_id is the category's id, 0 when there are none, and remaining is
\* the category's budget_amount minus spent.
C15_SpentAndRemaining ==
    LastIsBalanceRead =>
        \A i \in 1..Len(last.balances) :
            LET b == last.balances[i]
                mine == AssignedTo(last.user, b.id)
            IN  /\ \E c \in categories :
                      /\ c.id = b.id
                      /\ c.user_id = last.user
                      /\ b.budget_amount = c.budget_amount
                /\ b.spent = SumAmount(mine)
                /\ mine = {} => b.spent = 0
                /\ b.remaining = b.budget_amount - b.spent

\* a read that answers for a category with transactions, while another
\* category of the caller has a transaction as well
C15_Witness ==
    /\ LastIsBalanceRead
    /\ \E i \in 1..Len(last.balances) :
          /\ AssignedTo(last.user, last.balances[i].id) # {}
          /\ last.balances[i].spent # 0
          /\ \E t \in transactions :
                /\ t.user_id = last.user
                /\ t.category_id # last.balances[i].id

\* ------------------------------------------------------------------ C16
\* read_category has answered for a category with budget_amount 500.00 whose
\* transactions are one of -120.00 and one of -45.50
IsScenarioBalance ==
    /\ last.op = "read_category"
    /\ last.status = HTTP_200
    /\ last.balances[1].budget_amount = 50000
    /\ LET mine == AssignedTo(last.user, last.category)
       IN  /\ Cardinality(mine) = 2
           /\ {t.amount : t \in mine} = {-12000, -4550}

\* C16 as stated: for budget_amount 500.00 and transactions -120.00 and
\* -45.50 the balance reports spent = 165.50 and remaining = 334.50.
C16_ScenarioBalance ==
    IsScenarioBalance =>
        /\ last.balances[1].spent = 16550
        /\ last.balances[1].remaining = 33450

\* C16 amended: for budget_amount 500.00 and transactions -120.00 and -45.50
\* the balance reports the signed sum, spent = -165.50, and
\* remaining = 500.00 - (-165.50) = 665.50.
C16_ScenarioBalanceSigned ==
    IsScenarioBalance =>
        /\ last.balances[1].spent = -16550
        /\ last.balances[1].remaining = 66550

C16_Witness ==
    /\ IsScenarioBalance
    /\ last.balances[1].id = last.category
    /\ last.balances[1].spent < 0

\* ------------------------------------------------------------------ C17
\* C17: gocardless_webhook answers HTTP 200 for every request, also when the
\* signature is rejected, when the payload cannot be parsed, and when
\* processing an event or committing raises.
C17_WebhookAlwaysAcknowledges ==
    last.op = "gocardless_webhook" => last.status = HTTP_200

\* a commit raised while an event for a stored transaction was processed,
\* and the request was acknowledged
C17_Witness ==
    /\ last.op = "gocardless_webhook"
    /\ last.cause = "commit"
    /\ last.body = "error"
    /\ last.status = HTTP_200
    /\ transactions # {}

\* ------------------------------------------------------------------ C18
\* the rows of the five tables that belong to other users than user_id
RowsOfOthers(user_id) ==
    [categories |-> {c \in categories : c.user_id # user_id},
     transactions |-> {t \in transactions : t.user_id # user_id},
     bank_accounts |-> {a \in bank_accounts : a.user_id # user_id},
     budget_periods |-> {p \in budget_periods : p.user_id # user_id},
     envelope_allocations |->
         {a \in envelope_allocations :
             \E p \in budget_periods :
                 p.id = a.budget_period_id /\ p.user_id # user_id}]

\* C18: a request made for user U modifies or deletes no category,
\* transaction, bank account, budget period or envelope allocation of
\* another user, and a webhook event changes only transactions of the owner
\* the payment belongs to (the user who connected the bank account).
C18_OwnerScoped ==
    [][/\ last'.user \in Users =>
             /\ RowsOfOthers(last'.user).categories \subseteq categories'
             /\ RowsOfOthers(last'.user).transactions \subseteq transactions'
             /\ RowsOfOthers(last'.user).bank_accounts \subseteq bank_accounts'
             /\ RowsOfOthers(last'.user).budget_periods \subseteq budget_periods'
             /\ RowsOfOthers(last'.user).envelope_allocations
                    \subseteq envelope_allocations'
       /\ last'.op = "gocardless_webhook" =>
             RowsOfOthers(BankUser).transactions \subseteq transactions']_vars

\* ------------------------------------------------------------------ C19
\* two transactions of one owner carry the same external_id
SharesExternalId(t1, t2) ==
    /\ t1.id # t2.id
    /\ t1.user_id = t2.user_id
    /\ t1.external_id # NoExt
    /\ t1.external_id = t2.external_id

\* C19: in every state reached by create_transaction, update_transaction,
\* delete_transaction and sync_bank_account calls, no owner has two
\* transactions with the same non-null external_id.
C19_ExternalIdUniquePerOwner ==
    \A t1 \in transactions, t2 \in transactions : ~SharesExternalId(t1, t2)

\* ------------------------------------------------------------------ C21
\* the step is a delete_category that succeeded
CategoryDeleted == last'.op = "delete_category" /\ last'.status = HTTP_204

\* C21: after delete_category succeeds for category C, no transaction and no
\* envelope allocation references C: those that referenced C are deleted,
\* and those that referenced another category are unchanged.
C21_DeleteCategoryCascades ==
    [][CategoryDeleted =>
          /\ \A t \in transactions' : t.category_id # last'.category
          /\ \A a \in envelope_allocations' : a.category_id # last'.category
          /\ transactions' = {t \in transactions : t.category_id # last'.category}
          /\ envelope_allocations' =
                 {a \in envelope_allocations : a.category_id # last'.category}]_vars

\* a category with a transaction and an allocation has been deleted, and a
\* transaction and an allocation of another category are still stored
C21_Witness ==
    /\ last.op = "delete_category"
    /\ last.status = HTTP_204
    /\ last.removed # {}
    /\ \A c \in categories : c.id # last.category
    /\ \E t \in transactions : t.category_id \notin {None, last.category}
    /\ \E a \in envelope_allocations : a.category_id # last.category
    /\ \A a \in envelope_allocations : a.id # 1

\* ------------------------------------------------------------------ C22
\* the step is a delete_budget_period request for a period of the caller
PeriodDeleteRequested ==
    /\ last'.op = "delete_budget_period"
    /\ \E p \in budget_periods : p.id = last'.period /\ p.user_id = last'.user

C23_StartNotAfterEnd ==
    \A p \in budget_periods : p.start_date <= p.end_date

\* ------------------------------------------------------------------ C24
\* the table each update handler writes
UpdatedTable ==
    [update_transaction |-> "transactions", update_category |-> "categories",
     update_budget_period |-> "budget_periods",
     update_envelope_allocation |-> "envelope_allocations",
     update_bank_account |-> "bank_accounts"]

Tables ==
    [transactions |-> transactions, categories |-> categories,
     budget_periods |-> budget_periods,
     envelope_allocations |-> envelope_allocations,
     bank_accounts |-> bank_accounts]

\* the row with the fields of the request set to the requested values, a
\* field sent as null to NULL
WithRequested(row, request) ==
    [f \in DOMAIN row |-> IF f \in DOMAIN request THEN request[f] ELSE row[f]]

\* C24 as stated: a successful update_transaction, update_category,
\* update_budget_period, update_envelope_allocation or update_bank_account
\* sets exactly the fields present in the request to the requested values
\* and leaves the absent fields, updated_at among them, and every other
\* entity unchanged; an update that answers 404, such as an
\* update_transaction naming a category that is missing or not the
\* caller's, leaves every stored entity unchanged.
C24_PartialUpdate ==
    [][last'.op \in DOMAIN UpdatedTable =>
          LET name == UpdatedTable[last'.op]
          IN  /\ \A other \in DOMAIN Tables \ {name} : Tables'[other] = Tables[other]
              /\ last'.status = HTTP_404 => Tables'[name] = Tables[name]
              /\ last'.status = HTTP_200 =>
                    \E row \in Tables[name] :
                        /\ row.id = last'.target
                        /\ Tables'[name] = (Tables[name] \ {row}) \cup
                               {WithRequested(row, last'.request)}]_vars

\* ------------------------------------------------------------------ C25
\* the step is a sync for an account of the caller that can be synced;
\* in SpecIngest neither the client, the fetch nor the commit fails
FetchingSync ==
    /\ last'.op = "sync_bank_account"
    /\ last'.status \notin {HTTP_400, HTTP_404}

\* the transactions the step inserted
Inserted == {t \in transactions' : \A q \in transactions : q.id # t.id}

\* C25: a sync that fetches successfully for an owner without a category
\* named "Uncategorized" creates exactly one such category for that owner
\* and completes; every transaction a sync inserts references the owner's
\* "Uncategorized" category; syncs never leave the owner with more such
\* categories than before, or than one.
C25_SyncCreatesUncategorized ==
    [][FetchingSync =>
          /\ UncategorizedCategories(last'.user) = {} =>
                /\ last'.status = HTTP_200
                /\ Cardinality({c \in categories' :
                       c.name = "Uncategorized" /\ c.user_id = last'.user}) = 1
          /\ \A t \in Inserted :
                \E c \in categories' :
                    /\ c.id = t.category_id
                    /\ c.name = "Uncategorized"
                    /\ c.user_id = last'.user
          /\ \A c \in categories' \ categories :
                UncategorizedCategories(c.user_id) = {}]_vars

\* ------------------------------------------------------------------ C29
\* the transactions sync_bank_account has inserted
Synced == {t \in transactions : t.source = "gocardless"}

\* the ids selected by the run that starts or responds in the step
SelectedIds ==
    UNION ({Range(suspended'[k].selected) :
               k \in {j \in 1..MaxRuns :
                         suspended[j] = NoRun /\ suspended'[j] # NoRun}}
           \cup {IF last'.op \in {"bulk_categorize", "sweep"}
                 THEN Range(last'.selected) ELSE {}})

\* the ids a bulk categorization reports
ReportedIds ==
    IF last'.op = "bulk_categorize"
    THEN {last'.progress[i].transaction_id : i \in 1..Len(last'.progress)}
    ELSE {}

\* C29: a transaction inserted by sync_bank_account is stored with the
\* non-null id of the owner's "Uncategorized" category; no step of a bulk or
\* background categorization run has its id among the selected ones,
\* changes its category_id or reports it.
C29_SyncedNeverCategorized ==
    [][/\ \A t \in Inserted :
             t.source = "gocardless" => t.category_id \notin {None, 0}
       /\ RunStep =>
             \A t \in Synced :
                 /\ t \in transactions'
                 /\ t.id \notin SelectedIds
                 /\ t.id \notin ReportedIds]_vars

\* ------------------------------------------------------------------ C30
\* the transaction names a category that exists and is its owner's
ReferencesOwnCategory(t) ==
    \E c \in categories : c.id = t.category_id /\ c.user_id = t.user_id

\* C30: in every state reached by create_transaction, update_transaction,
\* sync_bank_account, bulk categorization, background categorization and
\* delete_category calls, every transaction whose category_id is non-null
\* and non-zero references an existing category of the transaction's owner.
C30_CategoryReferenceValid ==
    \A t \in transactions :
        t.category_id \notin {None, 0} => ReferencesOwnCategory(t)

\* ------------------------------------------------------------------ C26
\* the transactions whose external_id is the payment id the event carries
MatchingPayment(T, event) ==
    {t \in T : event.payment # NoExt /\ t.external_id = event.payment}

\* what one event may leave of the transactions T according to the claim
ClaimedEvent(T, event) ==
    IF /\ event.resource_type = "payments"
       /\ event.action \in {"confirmed", "failed", "cancelled"}
       /\ MatchingPayment(T, event) # {}
    THEN {(T \ {t}) \cup {[t EXCEPT !.notes = Append(@, event.action)]} :
             t \in MatchingPayment(T, event)}
    ELSE {T}

\* the same for the events of a payload from event i on
RECURSIVE ClaimedOutcomes(_, _, _)
ClaimedOutcomes(T, events, i) ==
    IF i > Len(events) THEN {T}
    ELSE UNION {ClaimedOutcomes(after, events, i + 1) :
                   after \in ClaimedEvent(T, events[i])}

\* C26: for each event of a webhook payload, in order: when the event is a
\* payment event with action confirmed, failed or cancelled and a
\* transaction has the event's payment id as external_id, that transaction's
\* notes get one status line appended and nothing else changes; for every
\* other event no transaction changes.
C26_WebhookEventEffect ==
    [][\A signature_header \in {"", "sig"}, payload \in WebhookPayloads,
          commit_fail \in 0..MaxEvents :
           (payload.parsed /\ gocardless_webhook(signature_header, payload, commit_fail))
               => transactions' \in ClaimedOutcomes(transactions, payload.events, 1)]_vars

\* ------------------------------------------------- provider and watermark
MaxClock == 3
MaxElapsed == 2

\* timedelta(days=30), the clock counted in days
DefaultWindow == 30

\* the payments GoCardless holds, with the time each was created
ProviderRecords ==
    {[id |-> "PM1", amount |-> 100, created_at |-> 1],
     [id |-> "PM2", amount |-> 100, created_at |-> 2]}

\* the orders in which client.payments.list can answer with the records:
\* the code iterates over payments.records as received and sorts nothing
RECURSIVE Listings(_)
Listings(records) ==
    IF records = {} THEN {<<>>}
    ELSE UNION {{<<r>> \o rest : rest \in Listings(records \ {r})} : r \in records}

\* for payment in payments.records: one transaction per payment, appended
\* in the order received
Standardized(payments) ==
    [i \in 1..Len(payments) |->
        [id |-> payments[i].id, amount |-> payments[i].amount,
         description |-> <<"Payment", payments[i].id>>,
         date |-> payments[i].created_at]]

\* utils/gocardless.py fetch_transactions, answered by the provider at time
\* at: client.payments.list(params={"created_at[gte]": since_date}); the
\* lists the call can return
fetch_transactions(at, since_date) ==
    LET since == IF since_date = None THEN at - DefaultWindow ELSE since_date
    IN  {Standardized(payments) :
            payments \in Listings({r \in ProviderRecords :
                                      r.created_at <= at /\ since <= r.created_at})}

InitProvider ==
    /\ categories = {[id |-> 1, name |-> "Uncategorized", user_id |-> BankUser,
                      budget_amount |-> 0, month |-> ThisMonth,
                      updated_at |-> None]}
    /\ transactions = {}
    /\ bank_accounts = {[id |-> 1, user_id |-> BankUser, provider |-> GoCardless,
                         secret_id |-> "token", last_synced |-> None,
                         name |-> "Main", account_type |-> "checking",
                         secret_key |-> "key", updated_at |-> None]}
    /\ budget_periods = {}
    /\ envelope_allocations = {}
    /\ now = 0
    /\ autoflush \in BOOLEAN
    /\ last = NoRequest
    /\ prev = Summary(NoRequest)
    /\ workers = NoWorkers
    /\ users = RegisteredUsers
    /\ sqlite_sequence = NoSequence
    /\ suspended = NoRuns

\* time passes at the provider and at the server
ProviderTick ==
    /\ now < MaxClock
    /\ now' = now + 1
    /\ UNCHANGED <<users, workers, sqlite_sequence, suspended, categories, transactions, bank_accounts, autoflush, budget_periods,
                 envelope_allocations, last, prev>>

\* a sync that reaches datetime.now() (transactions.py:242) at time now,
\* elapsed after the provider answered its fetch; the request began after
\* the sync before it had ended
SyncAfterFetch(user_id, elapsed, failure) ==
    \E a \in bank_accounts :
        /\ a.id = 1
        /\ now - elapsed >= 0
        /\ a.last_synced # None => a.last_synced <= now - elapsed
        /\ \E records \in IF failure = "fetch" THEN {<<>>}
                          ELSE fetch_transactions(now - elapsed, a.last_synced) :
               sync_bank_account(user_id, 1, failure, records)

ProviderSyncSucceeds ==
    \E elapsed \in 0..MaxElapsed : SyncAfterFetch(BankUser, elapsed, "none")

ProviderSyncFails ==
    \E user_id \in Users, elapsed \in 0..MaxElapsed, failure \in {"fetch", "commit"} :
        SyncAfterFetch(user_id, elapsed, failure)

NextProvider ==
    \/ ProviderTick
    \/ ProviderSyncSucceeds
    \/ ProviderSyncFails

SpecProvider == InitProvider /\ [][NextProvider]_vars

\* time passes, and whenever a sync can succeed one does
SpecProviderLive ==
    SpecProvider /\ WF_vars(ProviderTick) /\ SF_vars(ProviderSyncSucceeds)

\* ------------------------------------------------------------------ C27
\* the owner of the bank account has a transaction for the provider record
Ingested(r) ==
    \E t \in transactions : t.user_id = BankUser /\ t.external_id = r.id

RECURSIVE InsertRows(_, _)
InsertRows(rows, added) ==
    IF added = {} THEN rows
    ELSE LET first == CHOOSE r \in added : \A q \in added : r.id <= q.id
         IN  InsertRows(rows \cup {[first EXCEPT !.id = NextId(rows)]},
                        added \ {first})

\* the rows the sync requests in progress have added to their sessions
AddedByWorkers ==
    UNION {IF workers[w].stage = "idle" THEN {} ELSE {<<w, r>> : r \in workers[w].added}
              : w \in Workers}

\* sync_bank_account in process w, from the answer of the fetch to the end
\* of the loop over it (transactions.py:194-238): the existence checks read
\* the committed rows, the new rows wait in the session of the request
SyncCheck(w, user_id, records) ==
    LET sess == IngestRecords(NewSession, records, user_id,
                    (CHOOSE c \in UncategorizedCategories(user_id) :
                        \A d \in UncategorizedCategories(user_id) : c.id <= d.id).id,
                    autoflush)
    IN  /\ workers[w].stage = "idle"
        /\ \E a \in bank_accounts : a.id = 1 /\ a.user_id = user_id
        /\ UncategorizedCategories(user_id) # {}
        /\ Cardinality(transactions) + Cardinality(AddedByWorkers) + Len(records)
               <= MaxTxns
        /\ workers' = [workers EXCEPT ![w] =
               [stage |-> "checked", user |-> user_id,
                fetched |-> [i \in 1..Len(records) |-> records[i].id],
                added |-> sess.pend.transactions \ sess.db.transactions]]
        /\ UNCHANGED <<users, sqlite_sequence, suspended, categories, transactions, bank_accounts, now, autoflush,
                       budget_periods, envelope_allocations, last, prev>>

\* the same request at db_bank_account.last_synced = datetime.now() and
\* db.commit() (transactions.py:242-246)
SyncStore(w) ==
    LET job == workers[w]
        db_bank_account == CHOOSE a \in bank_accounts : a.id = 1
        sess == [NewSession EXCEPT
                    !.pend.transactions = InsertRows(transactions, job.added)]
        done == SyncCommit(SetLastSynced(sess, db_bank_account), TRUE)
    IN  /\ job.stage = "checked"
        /\ transactions' = SessionClose(done.sess).transactions
        /\ bank_accounts' = SessionClose(done.sess).bank_accounts
        /\ workers' = [workers EXCEPT ![w] = Idle]
        /\ last' = [op |-> "sync_bank_account", user |-> job.user,
                    status |-> HTTP_200, account |-> 1, fetched |-> job.fetched]
        /\ prev' = Summary(last)
        /\ UNCHANGED <<users, sqlite_sequence, suspended, categories, now, autoflush, budget_periods, envelope_allocations>>

\* the fetches answer with at most one payment, so that no session writes
\* before its commit
WorkerSyncCheck ==
    \E w \in Workers, records \in SeqsUpTo(Payments, 1) :
        SyncCheck(w, BankUser, records)

WorkerSyncStore == \E w \in Workers : SyncStore(w)

NextWorkers ==
    \/ WorkerSyncCheck
    \/ WorkerSyncStore
    \/ Tick

SpecWorkers == InitProvider /\ [][NextWorkers]_vars

\* ------------------------------------------------------------------ C28
\* the owner's transactions that carry the external id
OwnedWithExternalId(user_id, external_id) ==
    {t \in transactions : t.user_id = user_id /\ t.external_id = external_id}

\* C28: when two sync_bank_account requests of one owner interleave, both
\* running the existence check for a fetched payment before either commits,
\* the owner still has at most one transaction with that external_id.
C28_InterleavedSyncsKeepOne ==
    \A external_id \in PaymentIds :
        Cardinality(OwnedWithExternalId(BankUser, external_id)) <= 1
\* ------------------- two server processes, one database: allocations
\* the create_envelope_allocation requests that stand between their check
\* and their commit
CheckedAllocations ==
    Cardinality({w \in Workers : workers[w].stage = "checked"})

\* create_envelope_allocation in process w, from its first query to the
\* check for an existing allocation (budget.py:211-244): the three queries
\* read the committed rows
AllocationCheck(w, user_id, budget_period_id, category_id, allocated_amount) ==
    LET budget_period == {p \in budget_periods :
                             p.id = budget_period_id /\ p.user_id = user_id}
        category == {c \in categories : c.id = category_id /\ c.user_id = user_id}
        Respond(status) ==
            /\ last' = [op |-> "create_envelope_allocation", user |-> user_id,
                        status |-> status, period |-> budget_period_id,
                        category |-> category_id]
            /\ prev' = Summary(last)
            /\ UNCHANGED workers
    IN  /\ workers[w].stage = "idle"
        /\ IF budget_period = {} \/ category = {} THEN Respond(HTTP_404)
           ELSE IF ExistingAllocation(category_id, budget_period_id) # {}
           THEN Respond(HTTP_400)
           ELSE /\ Cardinality(envelope_allocations) + CheckedAllocations < MaxAllocs
                /\ NewAllocationId + CheckedAllocations <= MaxAllocIds
                /\ workers' = [workers EXCEPT ![w] =
                       [stage |-> "checked", user |-> user_id,
                        period |-> budget_period_id, category |-> category_id,
                        allocated_amount |-> allocated_amount]]
                /\ UNCHANGED <<last, prev>>
        /\ UNCHANGED <<users, sqlite_sequence, suspended, categories, transactions,
                       bank_accounts, now, autoflush, budget_periods,
                       envelope_allocations>>

\* the same request at db.add(db_allocation) and db.commit() and to its end
\* (budget.py:246-271): the INSERT, then the spent amount of the response
AllocationStore(w) ==
    LET job == workers[w]
    IN  /\ job.stage = "checked"
        /\ sqlite_sequence' =
               [sqlite_sequence EXCEPT !.envelope_allocations = NewAllocationId]
        /\ envelope_allocations' = envelope_allocations \cup
               {[id |-> NewAllocationId,
                 allocated_amount |-> job.allocated_amount,
                 category_id |-> job.category,
                 budget_period_id |-> job.period,
                 updated_at |-> None]}
        /\ workers' = [workers EXCEPT ![w] = Idle]
        /\ last' = [op |-> "create_envelope_allocation", user |-> job.user,
                    status |-> IF PeriodSpent(job.user, job.category, job.period).raised
                               THEN HTTP_500 ELSE HTTP_200,
                    period |-> job.period, category |-> job.category]
        /\ prev' = Summary(last)
        /\ UNCHANGED <<users, suspended, categories, transactions, bank_accounts,
                       now, autoflush, budget_periods>>

WorkerAllocationCheck ==
    \E w \in Workers, user_id \in Users, budget_period_id \in 1..MaxPeriodIds,
       category_id \in 1..MaxCats, allocated_amount \in AllocatedAmounts :
        AllocationCheck(w, user_id, budget_period_id, category_id, allocated_amount)

WorkerAllocationStore == \E w \in Workers : AllocationStore(w)

NextBudgetWorkers ==
    \/ BudgetCreateCategory
    \/ CreateBudgetPeriod
    \/ WorkerAllocationCheck
    \/ WorkerAllocationStore
    \/ DeleteEnvelopeAllocation

SpecBudgetWorkers == InitBudget /\ [][NextBudgetWorkers]_vars

====
